---------------------------- MODULE Spec2Model ----------------------------
(***************************************************************************)
(* Model of the OCR text interpreter of price-tag-scanner-ru               *)
(* (src/backend/db.js): the six detectors and parseOcrResult.              *)
(*                                                                         *)
(* A text is a sequence of characters.  A character is a TLA+ string that  *)
(* names it: an ASCII character is itself ("1", ".", "%", "R"), a Cyrillic *)
(* letter is its transliteration with the prefix ru_ (lower case) or RU_   *)
(* (upper case), and the non-ASCII currency signs have names:              *)
(*   а ru_a   б ru_b   в ru_v   г ru_g   д ru_d   е ru_e   ё ru_yo         *)
(*   ж ru_zh  з ru_z   и ru_i   й ru_j   к ru_k   л ru_l   м ru_m          *)
(*   н ru_n   о ru_o   п ru_p   р ru_r   с ru_s   т ru_t   у ru_u          *)
(*   ф ru_f   х ru_h   ц ru_c   ч ru_ch  ш ru_sh  щ ru_sch ъ ru_hard       *)
(*   ы ru_y   ь ru_soft  э ru_eh  ю ru_yu  я ru_ya                         *)
(*   ₽ rub_sign   € euro_sign   ₸ tenge_sign   ₴ hryvnia_sign              *)
(* Positions are counted as JavaScript counts them: position p lies before *)
(* the character s[p + 1], and 0 is the start of the text.                 *)
(***************************************************************************)
EXTENDS Integers, Sequences, FiniteSets, Bags, TLC

VARIABLES text, called, ret, products, scans, objects, returns,
          scanHistory, requests, provider, localStorage, pending

\* the ScanHistory collection and the requests to /api/history
historyVars == <<scanHistory, requests>>

\* the state of the frontend's AuthProvider, the browser's localStorage and
\* the calls of authApi in flight
frontendVars == <<provider, localStorage, pending>>

vars ==
  <<text, called, ret, products, scans, objects, returns,
    historyVars, frontendVars>>

\* null: a string value is a sequence of characters and a number a pair of
\* digit sequences, and null is the sequence of one token that is neither
Null == <<"null">>

-----------------------------------------------------------------------------
(* Characters and the character classes of JavaScript regular expressions. *)

DigitChars == <<"0", "1", "2", "3", "4", "5", "6", "7", "8", "9">>

\* \d
Digit == {DigitChars[k] : k \in 1..10}

\* \s (the members that occur in the modelled texts)
Space == {" ", "\t", "\n", "\r"}

\* the characters "." does not match
LineTerminator == {"\n", "\r"}

\* toUpperCase of the cased letters, which the i flag compares by
UpperOf ==
  [a |-> "A", b |-> "B", c |-> "C", d |-> "D", e |-> "E", f |-> "F", g |-> "G",
   h |-> "H", i |-> "I", j |-> "J", k |-> "K", l |-> "L", m |-> "M", n |-> "N",
   o |-> "O", p |-> "P", q |-> "Q", r |-> "R", s |-> "S", t |-> "T", u |-> "U",
   v |-> "V", w |-> "W", x |-> "X", y |-> "Y", z |-> "Z",
   ru_a |-> "RU_A", ru_b |-> "RU_B", ru_v |-> "RU_V", ru_g |-> "RU_G",
   ru_d |-> "RU_D", ru_e |-> "RU_E", ru_yo |-> "RU_YO", ru_zh |-> "RU_ZH",
   ru_z |-> "RU_Z", ru_i |-> "RU_I", ru_j |-> "RU_J", ru_k |-> "RU_K",
   ru_l |-> "RU_L", ru_m |-> "RU_M", ru_n |-> "RU_N", ru_o |-> "RU_O",
   ru_p |-> "RU_P", ru_r |-> "RU_R", ru_s |-> "RU_S", ru_t |-> "RU_T",
   ru_u |-> "RU_U", ru_f |-> "RU_F", ru_h |-> "RU_H", ru_c |-> "RU_C",
   ru_ch |-> "RU_CH", ru_sh |-> "RU_SH", ru_sch |-> "RU_SCH",
   ru_hard |-> "RU_HARD", ru_y |-> "RU_Y", ru_soft |-> "RU_SOFT",
   ru_eh |-> "RU_EH", ru_yu |-> "RU_YU", ru_ya |-> "RU_YA"]

LatinLower ==
  {"a", "b", "c", "d", "e", "f", "g", "h", "i", "j", "k", "l", "m",
   "n", "o", "p", "q", "r", "s", "t", "u", "v", "w", "x", "y", "z"}

\* \w: the ASCII letters, the digits and the underscore; \b is a change of
\* \w-ness, so a Cyrillic letter bounds a word like a space does
WordChar == LatinLower \cup {UpperOf[c] : c \in LatinLower} \cup Digit \cup {"_"}

Cased == DOMAIN UpperOf

\* Canonicalize of the i flag
Canon(c) == IF c \in Cased THEN UpperOf[c] ELSE c

-----------------------------------------------------------------------------
(* Regular expressions, as syntax trees, and their backtracking matcher.   *)
(* Match returns the match states reachable from a state in the order in   *)
(* which backtracking tries them: the head is the match JavaScript takes.  *)

Lit(w) == [op |-> "lit", w |-> w]
Set(S) == [op |-> "set", set |-> S]
Dot == [op |-> "dot"]
Star(r) == [op |-> "star", of |-> r, min |-> 0]
Plus(r) == [op |-> "star", of |-> r, min |-> 1]
Rep(r, n) == [op |-> "rep", of |-> r, n |-> n]
Opt(r) == [op |-> "opt", of |-> r]
Alt(rs) == [op |-> "alt", rs |-> rs]
Cat(rs) == [op |-> "cat", rs |-> rs]
Grp(r) == [op |-> "grp", of |-> r]
WordB == [op |-> "wordb"]
NotAhead(r) == [op |-> "nla", of |-> r]

\* one character against a one-character atom (a class or the dot)
CharOk(r, c, ic) ==
  IF r.op = "dot" THEN c \notin LineTerminator
  ELSE IF ic THEN \E d \in r.set : Canon(d) = Canon(c)
  ELSE c \in r.set

\* the end of the longest run of characters matching atom r from position p
RunEnd(r, s, ic, p) ==
  CHOOSE j \in p..Len(s) :
    /\ \A k \in (p + 1)..j : CharOk(r, s[k], ic)
    /\ j = Len(s) \/ ~CharOk(r, s[j + 1], ic)

IsWordAt(s, k) == k >= 1 /\ k <= Len(s) /\ s[k] \in WordChar

\* a greedy quantifier over a run that ends at e: the longest repetition first,
\* then one character less, ..., down to min characters
Repetitions(st, e, min) ==
  IF e - st.pos < min THEN <<>>
  ELSE [k \in 1..(e - st.pos - min + 1) |-> [st EXCEPT !.pos = e - (k - 1)]]

\* the states after capture group 1, which began at position start
Captured(inner, start) ==
  [k \in 1..Len(inner) |-> [inner[k] EXCEPT !.cs = start, !.ce = inner[k].pos]]

RECURSIVE Match(_, _, _, _), Bind(_, _, _, _), MatchCat(_, _, _, _),
          MatchAlt(_, _, _, _)

Match(r, s, ic, st) ==
  CASE r.op = "lit" ->
         IF /\ st.pos + Len(r.w) <= Len(s)
            /\ \A k \in 1..Len(r.w) :
                 IF ic THEN Canon(s[st.pos + k]) = Canon(r.w[k])
                 ELSE s[st.pos + k] = r.w[k]
         THEN <<[st EXCEPT !.pos = @ + Len(r.w)]>>
         ELSE <<>>
    [] r.op \in {"set", "dot"} ->
         IF st.pos < Len(s) /\ CharOk(r, s[st.pos + 1], ic)
         THEN <<[st EXCEPT !.pos = @ + 1]>>
         ELSE <<>>
    [] r.op = "star" ->
         Repetitions(st, RunEnd(r.of, s, ic, st.pos), r.min)
    [] r.op = "rep" ->
         IF /\ st.pos + r.n <= Len(s)
            /\ \A k \in 1..r.n : CharOk(r.of, s[st.pos + k], ic)
         THEN <<[st EXCEPT !.pos = @ + r.n]>>
         ELSE <<>>
    [] r.op = "opt" -> Match(r.of, s, ic, st) \o <<st>>
    [] r.op = "alt" -> MatchAlt(r.rs, s, ic, st)
    [] r.op = "cat" -> MatchCat(r.rs, s, ic, <<st>>)
    [] r.op = "grp" ->
         Captured(Match(r.of, s, ic, st), st.pos)
    [] r.op = "wordb" ->
         IF IsWordAt(s, st.pos) # IsWordAt(s, st.pos + 1) THEN <<st>> ELSE <<>>
    [] r.op = "nla" ->
         IF Match(r.of, s, ic, st) = <<>> THEN <<st>> ELSE <<>>

\* the continuations of each state of sts, in order
Bind(r, s, ic, sts) ==
  IF sts = <<>> THEN <<>>
  ELSE Match(r, s, ic, Head(sts)) \o Bind(r, s, ic, Tail(sts))

MatchCat(rs, s, ic, sts) ==
  IF rs = <<>> \/ sts = <<>> THEN sts
  ELSE MatchCat(Tail(rs), s, ic, Bind(Head(rs), s, ic, sts))

MatchAlt(rs, s, ic, st) ==
  IF rs = <<>> THEN <<>>
  ELSE Match(Head(rs), s, ic, st) \o MatchAlt(Tail(rs), s, ic, st)

\* RegExp.prototype.exec from lastIndex: the leftmost start that matches, with
\* the match backtracking finds first there; index, end (the new lastIndex of
\* a g pattern) and the text of capture group 1; NoMatch is its null
NoMatch == [index |-> -1, end |-> -1, g1 |-> Null]

MatchResult(s, index, st) ==
  [index |-> index, end |-> st.pos,
   g1 |-> IF st.cs < 0 THEN Null ELSE SubSeq(s, st.cs + 1, st.ce)]

RECURSIVE Exec(_, _, _, _), ExecAt(_, _, _, _, _)

Exec(r, s, ic, lastIndex) ==
  IF lastIndex > Len(s) THEN NoMatch
  ELSE ExecAt(r, s, ic, lastIndex,
              Match(r, s, ic, [pos |-> lastIndex, cs |-> -1, ce |-> -1]))

\* ms: the matches that start at lastIndex
ExecAt(r, s, ic, lastIndex, ms) ==
  IF ms = <<>> THEN Exec(r, s, ic, lastIndex + 1)
  ELSE MatchResult(s, lastIndex, ms[1])

\* pattern.test(text) and text.match(pattern) of a pattern without the g flag
Test(r, s, ic) == Exec(r, s, ic, 0) # NoMatch

\* while ((match = pattern.exec(text)) !== null): the matches of a g pattern
\* in order.  A match that does not advance lastIndex would repeat forever;
\* the model stops there (LoopEnds states that no pattern has one).
RECURSIVE ExecAll(_, _, _, _), ExecLoop(_, _, _, _, _)

ExecAll(r, s, ic, lastIndex) ==
  ExecLoop(r, s, ic, lastIndex, Exec(r, s, ic, lastIndex))

\* m: what exec returned from lastIndex
ExecLoop(r, s, ic, lastIndex, m) ==
  IF m = NoMatch THEN <<>>
  ELSE IF m.end <= lastIndex THEN <<m>>
  ELSE <<m>> \o ExecAll(r, s, ic, m.end)

-----------------------------------------------------------------------------
(* Numbers.  A parsed number is kept as its decimal expansion, the pair of *)
(* its integer digits without leading zeros and its fraction digits without*)
(* trailing zeros, so that no digit run of a text is too long to hold.     *)

DigitVal(c) == CHOOSE n \in 0..9 : DigitChars[n + 1] = c

RECURSIVE StripLeadingZeros(_), StripTrailingZeros(_), LexLess(_, _)

StripLeadingZeros(ds) ==
  IF ds # <<>> /\ Head(ds) = 0 THEN StripLeadingZeros(Tail(ds)) ELSE ds

StripTrailingZeros(ds) ==
  IF ds # <<>> /\ ds[Len(ds)] = 0
  THEN StripTrailingZeros(SubSeq(ds, 1, Len(ds) - 1)) ELSE ds

Dec(ip, fp) == <<StripLeadingZeros(ip), StripTrailingZeros(fp)>>

\* a, b digit sequences compared as fractions 0.a and 0.b
LexLess(a, b) ==
  IF b = <<>> THEN FALSE
  ELSE IF a = <<>> THEN TRUE
  ELSE IF Head(a) # Head(b) THEN Head(a) < Head(b)
  ELSE LexLess(Tail(a), Tail(b))

\* x < y
DecLess(x, y) ==
  IF Len(x[1]) # Len(y[1]) THEN Len(x[1]) < Len(y[1])
  ELSE IF x[1] # y[1] THEN LexLess(x[1], y[1])
  ELSE LexLess(x[2], y[2])

DecLeq(x, y) == x = y \/ DecLess(x, y)

\* the number n >= 0 as a parsed number
RECURSIVE NatDigits(_)
NatDigits(n) == IF n = 0 THEN <<>> ELSE NatDigits(n \div 10) \o <<n % 10>>

DecOfNat(n) == Dec(NatDigits(n), <<>>)

Digits(s, from, to) == [k \in 1..(to - from) |-> DigitVal(s[from + k])]


NaN == <<"NaN">>

\* parseFloat: the longest prefix that is digits, then "." and digits
\* (the captures it is given hold nothing else: no sign, no exponent)
parseFloat(str) ==
  LET e == RunEnd(Set(Digit), str, FALSE, 0)
      f == IF e < Len(str) /\ str[e + 1] = "."
           THEN RunEnd(Set(Digit), str, FALSE, e + 1) ELSE e + 1
  IN  IF e = 0 /\ f <= e + 1 THEN NaN
      ELSE Dec(Digits(str, 0, e), Digits(str, e + 1, f))

\* parseInt(str), radix 10: the longest prefix of digits
parseInt(str) ==
  LET e == RunEnd(Set(Digit), str, FALSE, 0)
  IN  IF e = 0 THEN NaN ELSE Dec(Digits(str, 0, e), <<>>)

\* str.replace(',', '.'): the first comma only
ReplaceComma(str) ==
  LET at == {k \in 1..Len(str) : str[k] = ","}
  IN  IF at = {} THEN str
      ELSE LET k == CHOOSE x \in at : \A y \in at : x <= y
           IN  [str EXCEPT ![k] = "."]

\* [...new Set(xs)]: the first occurrence of each value, in order
RECURSIVE SetOrder(_)
SetOrder(xs) ==
  IF xs = <<>> THEN <<>>
  ELSE LET init == SetOrder(SubSeq(xs, 1, Len(xs) - 1))
           x == xs[Len(xs)]
       IN  IF \E k \in 1..Len(init) : init[k] = x THEN init ELSE init \o <<x>>

\* xs.sort((a, b) => a - b)
RECURSIVE SortAscending(_)
SortAscending(xs) ==
  IF xs = <<>> THEN <<>>
  ELSE LET init == SortAscending(SubSeq(xs, 1, Len(xs) - 1))
           x == xs[Len(xs)]
           n == Cardinality({k \in 1..Len(init) : DecLeq(init[k], x)})
       IN  SubSeq(init, 1, n) \o <<x>> \o SubSeq(init, n + 1, Len(init))

\* Math.min(...xs) and Math.max(...xs) of a non-empty xs
MathMin(xs) == xs[CHOOSE k \in 1..Len(xs) : \A j \in 1..Len(xs) : DecLeq(xs[k], xs[j])]

MathMax(xs) == xs[CHOOSE k \in 1..Len(xs) : \A j \in 1..Len(xs) : DecLeq(xs[j], xs[k])]

\* a faulty variant: the loop without its return, so that the last matching rule wins
FirstRule_NoEarlyReturn(rules, s, k) ==
  IF \E j \in k..Len(rules) : Test(rules[j].pattern, s, TRUE)
  THEN CHOOSE j \in k..Len(rules) :
         /\ Test(rules[j].pattern, s, TRUE)
         /\ \A i \in (j + 1)..Len(rules) : ~Test(rules[i].pattern, s, TRUE)
  ELSE 0

\* a faulty variant: the rule whose match starts leftmost in the text wins
FirstRule_ByTextPosition(rules, s, k) ==
  IF \E j \in k..Len(rules) : Test(rules[j].pattern, s, TRUE)
  THEN CHOOSE j \in k..Len(rules) :
         /\ Test(rules[j].pattern, s, TRUE)
         /\ \A i \in k..Len(rules) :
              Test(rules[i].pattern, s, TRUE) =>
                \/ Exec(rules[j].pattern, s, TRUE, 0).index
                     < Exec(rules[i].pattern, s, TRUE, 0).index
                \/ /\ Exec(rules[j].pattern, s, TRUE, 0).index
                        = Exec(rules[i].pattern, s, TRUE, 0).index
                   /\ j <= i
  ELSE 0

\* for (const rule of rules) if (rule.pattern.test(text)) return ...: the index
\* of the first rule from k on whose pattern matches, 0 when none does
RECURSIVE FirstRule(_, _, _)
FirstRule(rules, s, k) ==
  IF k > Len(rules) THEN 0
  ELSE IF Test(rules[k].pattern, s, TRUE) THEN k
  ELSE FirstRule(rules, s, k + 1)

-----------------------------------------------------------------------------
(* src/backend/db.js                                                       *)

\* /(?:руб|₽|рубл|RUB)/i ... /(?:Br|BYN|бел)/i
currencyPatterns ==
  << [pattern |-> Alt(<<Lit(<<"ru_r", "ru_u", "ru_b">>), Lit(<<"rub_sign">>),
                        Lit(<<"ru_r", "ru_u", "ru_b", "ru_l">>),
                        Lit(<<"R", "U", "B">>)>>),
      currency |-> <<"R", "U", "B">>, symbol |-> <<"rub_sign">>],
     [pattern |-> Alt(<<Lit(<<"$">>), Lit(<<"U", "S", "D">>),
                        Lit(<<"ru_d", "ru_o", "ru_l", "ru_l">>)>>),
      currency |-> <<"U", "S", "D">>, symbol |-> <<"$">>],
     [pattern |-> Alt(<<Lit(<<"euro_sign">>), Lit(<<"E", "U", "R">>),
                        Lit(<<"ru_e", "ru_v", "ru_r", "ru_o">>)>>),
      currency |-> <<"E", "U", "R">>, symbol |-> <<"euro_sign">>],
     [pattern |-> Alt(<<Lit(<<"tenge_sign">>), Lit(<<"K", "Z", "T">>),
                        Lit(<<"ru_t", "ru_e", "ru_n", "ru_g", "ru_e">>)>>),
      currency |-> <<"K", "Z", "T">>, symbol |-> <<"tenge_sign">>],
     [pattern |-> Alt(<<Lit(<<"hryvnia_sign">>), Lit(<<"U", "A", "H">>),
                        Lit(<<"ru_g", "ru_r", "ru_n">>)>>),
      currency |-> <<"U", "A", "H">>, symbol |-> <<"hryvnia_sign">>],
     [pattern |-> Alt(<<Lit(<<"B", "r">>), Lit(<<"B", "Y", "N">>),
                        Lit(<<"ru_b", "ru_e", "ru_l">>)>>),
      currency |-> <<"B", "Y", "N">>, symbol |-> <<"B", "r">>] >>

\* the return of the loop at rule k, or the default after it (k = 0)
\* a faulty variant: no default when no rule matches
CurrencyOfRule_NoDefault(k) ==
  IF k # 0
  THEN [currency |-> currencyPatterns[k].currency,
        symbol |-> currencyPatterns[k].symbol]
  ELSE [currency |-> Null, symbol |-> Null]

CurrencyOfRule(k) ==
  IF k # 0
  THEN [currency |-> currencyPatterns[k].currency,
        symbol |-> currencyPatterns[k].symbol]
  ELSE [currency |-> <<"R", "U", "B">>, symbol |-> <<"rub_sign">>]

detectCurrency(t) == CurrencyOfRule(FirstRule(currencyPatterns, t, 1))

\* (?:руб|₽|р\.?|RUB|\$|€)
CurrencyToken ==
  Alt(<<Lit(<<"ru_r", "ru_u", "ru_b">>), Lit(<<"rub_sign">>),
        Cat(<<Lit(<<"ru_r">>), Opt(Lit(<<".">>))>>),
        Lit(<<"R", "U", "B">>), Lit(<<"$">>), Lit(<<"euro_sign">>)>>)

\* /(\d+[\.,]\d{2})\s*(?:руб|₽|р\.?|RUB|\$|€)?/gi
\* /(\d+)\s*(?:руб|₽|р\.?|RUB|\$|€)/gi
\* /цена[:\s]*(\d+[\.,]?\d*)/gi
\* /стоимость[:\s]*(\d+[\.,]?\d*)/gi
pricePatterns ==
  << Cat(<<Grp(Cat(<<Plus(Set(Digit)), Set({".", ","}), Rep(Set(Digit), 2)>>)),
           Star(Set(Space)), Opt(CurrencyToken)>>),
     Cat(<<Grp(Plus(Set(Digit))), Star(Set(Space)), CurrencyToken>>),
     Cat(<<Lit(<<"ru_c", "ru_e", "ru_n", "ru_a">>), Star(Set({":"} \cup Space)),
           Grp(Cat(<<Plus(Set(Digit)), Opt(Set({".", ","})),
                     Star(Set(Digit))>>))>>),
     Cat(<<Lit(<<"ru_s", "ru_t", "ru_o", "ru_i", "ru_m", "ru_o", "ru_s",
                 "ru_t", "ru_soft">>), Star(Set({":"} \cup Space)),
           Grp(Cat(<<Plus(Set(Digit)), Opt(Set({".", ","})),
                     Star(Set(Digit))>>))>>) >>

\* a faulty variant: the range taken with its end points
InPriceRange_Closed(price) ==
  /\ price # NaN
  /\ DecLeq(DecOfNat(0), price)
  /\ DecLeq(price, DecOfNat(1000000))

\* price > 0 && price < 1000000 (false of NaN)
InPriceRange(price) ==
  /\ price # NaN
  /\ DecLess(DecOfNat(0), price)
  /\ DecLess(price, DecOfNat(1000000))

\* parseFloat(match[1].replace(',', '.')) of each match of ms
ParsedPrices(ms) == [k \in 1..Len(ms) |-> parseFloat(ReplaceComma(ms[k].g1))]

\* the prices pushed by the while loop of one pattern, whose matches are ms
PricesOfMatches(ms) == SelectSeq(ParsedPrices(ms), InPriceRange)

PricesOfPattern(pattern, t) == PricesOfMatches(ExecAll(pattern, t, TRUE, 0))

\* the array prices after the for loop over the patterns from k on
RECURSIVE PricesPushed(_, _)
PricesPushed(t, k) ==
  IF k > Len(pricePatterns) THEN <<>>
  ELSE PricesOfPattern(pricePatterns[k], t) \o PricesPushed(t, k + 1)

\* a faulty variant: the candidates in the order of their first match, not sorted
extractPrice_Unsorted(t) == SetOrder(PricesPushed(t, 1))

\* a faulty variant: the candidates sorted, duplicates kept
extractPrice_WithDuplicates(t) == SortAscending(PricesPushed(t, 1))

extractPrice(t) == SortAscending(SetOrder(PricesPushed(t, 1)))

\* /акци[яи]/i ... /жёлт.*цен|желт.*цен/i, with the type of each
promoPatterns ==
  << [pattern |-> Cat(<<Lit(<<"ru_a", "ru_k", "ru_c", "ru_i">>),
                        Set({"ru_ya", "ru_i"})>>),
      type |-> <<"ru_a", "ru_k", "ru_c", "ru_i", "ru_ya">>],
     [pattern |-> Cat(<<Lit(<<"ru_s", "ru_k", "ru_i", "ru_d", "ru_k">>),
                        Set({"ru_a", "ru_i"})>>),
      type |-> <<"ru_s", "ru_k", "ru_i", "ru_d", "ru_k", "ru_a">>],
     [pattern |-> Lit(<<"ru_r", "ru_a", "ru_s", "ru_p", "ru_r", "ru_o", "ru_d",
                        "ru_a", "ru_zh">>),
      type |-> <<"ru_r", "ru_a", "ru_s", "ru_p", "ru_r", "ru_o", "ru_d",
                 "ru_a", "ru_zh", "ru_a">>],
     [pattern |-> Cat(<<Lit(<<"ru_s", "ru_p", "ru_e", "ru_c", "ru_i", "ru_a",
                              "ru_l", "ru_soft", "ru_n">>),
                        Star(Dot), Lit(<<"ru_c", "ru_e", "ru_n">>)>>),
      type |-> <<"ru_s", "ru_p", "ru_e", "ru_c", "ru_c", "ru_e", "ru_n",
                 "ru_a">>],
     [pattern |-> Lit(<<"ru_v", "ru_y", "ru_g", "ru_o", "ru_d", "ru_n">>),
      type |-> <<"ru_v", "ru_y", "ru_g", "ru_o", "ru_d", "ru_n", "ru_a",
                 "ru_ya", " ", "ru_c", "ru_e", "ru_n", "ru_a">>],
     [pattern |-> Lit(<<"s", "a", "l", "e">>),
      type |-> <<"s", "a", "l", "e">>],
     [pattern |-> Lit(<<"ru_p", "ru_r", "ru_o", "ru_m", "ru_o">>),
      type |-> <<"ru_p", "ru_r", "ru_o", "ru_m", "ru_o">>],
     [pattern |-> Cat(<<Lit(<<"-">>), Star(Set(Space)), Plus(Set(Digit)),
                        Star(Set(Space)), Lit(<<"%">>)>>),
      type |-> <<"ru_s", "ru_k", "ru_i", "ru_d", "ru_k", "ru_a">>],
     [pattern |-> Cat(<<Plus(Set(Digit)), Star(Set(Space)), Lit(<<"%">>),
                        Star(Set(Space)),
                        Alt(<<Lit(<<"ru_s", "ru_k", "ru_i", "ru_d", "ru_k">>),
                              Lit(<<"o", "f", "f">>)>>)>>),
      type |-> <<"ru_s", "ru_k", "ru_i", "ru_d", "ru_k", "ru_a">>],
     [pattern |-> Cat(<<Lit(<<"ru_s", "ru_t", "ru_a", "ru_r", "ru_a", "ru_ya">>),
                        Star(Set(Space)),
                        Lit(<<"ru_c", "ru_e", "ru_n", "ru_a">>)>>),
      type |-> <<"ru_s", "ru_k", "ru_i", "ru_d", "ru_k", "ru_a">>],
     [pattern |-> Lit(<<"ru_b", "ru_y", "ru_l", "ru_o">>),
      type |-> <<"ru_s", "ru_k", "ru_i", "ru_d", "ru_k", "ru_a">>],
     [pattern |-> Cat(<<Lit(<<"ru_k", "ru_r", "ru_a", "ru_s", "ru_n">>),
                        Star(Dot), Lit(<<"ru_c", "ru_e", "ru_n">>)>>),
      type |-> <<"ru_k", "ru_r", "ru_a", "ru_s", "ru_n", "ru_a", "ru_ya", " ",
                 "ru_c", "ru_e", "ru_n", "ru_a">>],
     [pattern |-> Alt(<<Cat(<<Lit(<<"ru_zh", "ru_yo", "ru_l", "ru_t">>),
                              Star(Dot), Lit(<<"ru_c", "ru_e", "ru_n">>)>>),
                        Cat(<<Lit(<<"ru_zh", "ru_e", "ru_l", "ru_t">>),
                              Star(Dot), Lit(<<"ru_c", "ru_e", "ru_n">>)>>)>>),
      type |-> <<"ru_zh", "ru_e", "ru_l", "ru_t", "ru_a", "ru_ya", " ",
                 "ru_c", "ru_e", "ru_n", "ru_a">>] >>

\* the return of the loop at rule k, or the return after it (k = 0)
PromoOfRule(k) ==
  IF k # 0 THEN [isPromo |-> TRUE, promoType |-> promoPatterns[k].type]
  ELSE [isPromo |-> FALSE, promoType |-> Null]

detectPromo(t) == PromoOfRule(FirstRule(promoPatterns, t, 1))

\* /-?\s*(\d+)\s*%/g
discountPattern ==
  Cat(<<Opt(Lit(<<"-">>)), Star(Set(Space)), Grp(Plus(Set(Digit))),
        Star(Set(Space)), Lit(<<"%">>)>>)

\* a faulty variant: 100 taken for a discount
InDiscountRange_Upto100(discount) ==
  /\ discount # NaN
  /\ DecLess(DecOfNat(0), discount)
  /\ DecLeq(discount, DecOfNat(100))

\* discount > 0 && discount <= 99 (false of NaN)
InDiscountRange(discount) ==
  /\ discount # NaN
  /\ DecLess(DecOfNat(0), discount)
  /\ DecLeq(discount, DecOfNat(99))

\* parseInt(match[1]) of each match of ms
ParsedDiscounts(ms) == [k \in 1..Len(ms) |-> parseInt(ms[k].g1)]

\* the discounts pushed by the while loop, whose matches are ms
DiscountsOfMatches(ms) == SelectSeq(ParsedDiscounts(ms), InDiscountRange)

\* discounts.length > 0 ? Math.max(...discounts) : null
MaxDiscount(discounts) ==
  IF Len(discounts) > 0 THEN MathMax(discounts) ELSE Null

extractDiscount(t) ==
  MaxDiscount(DiscountsOfMatches(ExecAll(discountPattern, t, FALSE, 0)))

\* /\b(\d{n})\b/
\* a faulty variant: no word boundary after the n digits
DigitRunPattern_OpenEnd(n) == Cat(<<WordB, Grp(Rep(Set(Digit), n))>>)

\* a faulty variant: the n digits without the word boundaries around them
DigitRunPattern_Unbounded(n) == Grp(Rep(Set(Digit), n))

DigitRunPattern(n) == Cat(<<WordB, Grp(Rep(Set(Digit), n)), WordB>>)

\* a faulty variant: the lengths tried in descending order, 13 then 12 then 8
BarcodeOfMatches_ByLength(ean13, ean8, upc) ==
  IF ean13 # NoMatch THEN ean13.g1
  ELSE IF upc # NoMatch THEN upc.g1
  ELSE IF ean8 # NoMatch THEN ean8.g1
  ELSE Null

\* the returns of extractBarcode, from the three matches
BarcodeOfMatches(ean13, ean8, upc) ==
  IF ean13 # NoMatch THEN ean13.g1
  ELSE IF ean8 # NoMatch THEN ean8.g1
  ELSE IF upc # NoMatch THEN upc.g1
  ELSE Null

extractBarcode(t) ==
  BarcodeOfMatches(Exec(DigitRunPattern(13), t, FALSE, 0),
                   Exec(DigitRunPattern(8), t, FALSE, 0),
                   Exec(DigitRunPattern(12), t, FALSE, 0))

\* the three alternatives of a unit rule: /за\s*X|\/X|WORD/ (lookahead: the
\* pattern that may not follow "/X", as in \/г(?!р))
UnitPattern(x, lookahead, word) ==
  Alt(<<Cat(<<Lit(<<"ru_z", "ru_a">>), Star(Set(Space)), Lit(x)>>),
        Cat(<<Lit(<<"/">>), Lit(x)>> \o lookahead),
        Lit(word)>>)

\* /за\s*кг|\/кг|килограмм/i ... /за\s*уп|\/уп|упаковк/i, with the unit of each
unitPatterns ==
  << [pattern |-> UnitPattern(<<"ru_k", "ru_g">>, <<>>,
                    <<"ru_k", "ru_i", "ru_l", "ru_o", "ru_g", "ru_r", "ru_a",
                      "ru_m", "ru_m">>),
      unit |-> <<"ru_k", "ru_g">>],
     [pattern |-> UnitPattern(<<"ru_sh", "ru_t">>, <<>>,
                    <<"ru_sh", "ru_t", "ru_u", "ru_k">>),
      unit |-> <<"ru_sh", "ru_t">>],
     [pattern |-> UnitPattern(<<"ru_l">>, <<>>,
                    <<"ru_l", "ru_i", "ru_t", "ru_r">>),
      unit |-> <<"ru_l">>],
     [pattern |-> UnitPattern(<<"ru_g">>, <<NotAhead(Lit(<<"ru_r">>))>>,
                    <<"ru_g", "ru_r", "ru_a", "ru_m", "ru_m">>),
      unit |-> <<"ru_g">>],
     [pattern |-> UnitPattern(<<"ru_m", "ru_l">>, <<>>,
                    <<"ru_m", "ru_i", "ru_l", "ru_l", "ru_i", "ru_l", "ru_i",
                      "ru_t", "ru_r">>),
      unit |-> <<"ru_m", "ru_l">>],
     [pattern |-> UnitPattern(<<"ru_u", "ru_p">>, <<>>,
                    <<"ru_u", "ru_p", "ru_a", "ru_k", "ru_o", "ru_v", "ru_k">>),
      unit |-> <<"ru_u", "ru_p">>] >>

\* the return of the loop at rule k, or the return after it (k = 0)
UnitOfRule(k) == IF k # 0 THEN unitPatterns[k].unit ELSE Null

extractUnit(t) == UnitOfRule(FirstRule(unitPatterns, t, 1))

\* a faulty variant: the second branch assigns the wrong variable
ResolvePrice_WrongVariable(prices, isPromo) ==
  IF Len(prices) >= 2 /\ isPromo
  THEN [price |-> prices[1], originalPrice |-> prices[Len(prices)]]
  ELSE IF Len(prices) >= 1
  THEN [price |-> Null, originalPrice |-> prices[1]]
  ELSE [price |-> Null, originalPrice |-> Null]

\* a faulty variant: originalPrice read at index 1 instead of at the last index
ResolvePrice_SecondCandidate(prices, isPromo) ==
  IF Len(prices) >= 2 /\ isPromo
  THEN [price |-> prices[1], originalPrice |-> prices[2]]
  ELSE IF Len(prices) >= 1
  THEN [price |-> prices[1], originalPrice |-> Null]
  ELSE [price |-> Null, originalPrice |-> Null]

\* price and originalPrice, from the sorted candidates and the promo flag
ResolvePrice(prices, isPromo) ==
  IF Len(prices) >= 2 /\ isPromo
  THEN [price |-> prices[1], originalPrice |-> prices[Len(prices)]]
  ELSE IF Len(prices) >= 1
  THEN [price |-> prices[1], originalPrice |-> Null]
  ELSE [price |-> Null, originalPrice |-> Null]

\* prices.length > 1 ? Math.min(...prices) : null
\* a faulty variant: the minimum taken of a single candidate too
PricePerUnit_OfOneCandidate(prices) ==
  IF Len(prices) >= 1 THEN MathMin(prices) ELSE Null

PricePerUnit(prices) == IF Len(prices) > 1 THEN MathMin(prices) ELSE Null

\* the record parseOcrResult returns, from what the detectors returned
ParsedData(t, prices, cur, promo, discountPercent, barcode, unit) ==
  [price |-> ResolvePrice(prices, promo.isPromo).price,
   originalPrice |-> ResolvePrice(prices, promo.isPromo).originalPrice,
   pricePerUnit |-> PricePerUnit(prices),
   currency |-> cur.currency,
   currencySymbol |-> cur.symbol,
   unit |-> unit,
   barcode |-> barcode,
   isPromo |-> promo.isPromo,
   promoType |-> promo.promoType,
   discountPercent |-> discountPercent,
   rawText |-> t]

parseOcrResult(t) ==
  ParsedData(t, extractPrice(t), detectCurrency(t), detectPromo(t),
             extractDiscount(t), extractBarcode(t), extractUnit(t))

-----------------------------------------------------------------------------
(* JavaScript numbers in arithmetic.  A positive Number is an IEEE 754      *)
(* binary64: [e, m] stands for m * 2^e, m a sequence of MantissaBits bits,  *)
(* most significant first, the first of them 1.  Sums and quotients are     *)
(* rounded to nearest, ties to even.  The prices here are far from the      *)
(* subnormal and the overflow range.  A parsed number <<ip, fp>> is the     *)
(* binary64 nearest to the decimal; the conversion holds numbers of up to   *)
(* nine decimal digits.                                                     *)

MantissaBits == 53

Zeros(n) == [k \in 1..n |-> 0]

\* the binary digits of n > 0, none for 0
RECURSIVE NatBits(_)
NatBits(n) == IF n = 0 THEN <<>> ELSE NatBits(n \div 2) \o <<n % 2>>

RECURSIVE NatOfDigits(_)
NatOfDigits(ds) ==
  IF ds = <<>> THEN 0 ELSE 10 * NatOfDigits(SubSeq(ds, 1, Len(ds) - 1)) + ds[Len(ds)]

RECURSIVE PowerOfTen(_)
PowerOfTen(k) == IF k = 0 THEN 1 ELSE 10 * PowerOfTen(k - 1)

\* bits plus one at its last place; the carry out of the first place is kept
\* as a longer sequence
Increment(bits) ==
  IF \E k \in 1..Len(bits) : bits[k] = 0
  THEN [k \in 1..Len(bits) |->
          IF \E j \in (k + 1)..Len(bits) : bits[j] = 0 THEN bits[k]
          ELSE 1 - bits[k]]
  ELSE <<1>> \o Zeros(Len(bits))

\* the sum of the places lo..hi of two bit sequences of one length and of
\* the carry c into place hi: <<sum bits, carry out of place lo>>.  The
\* range is halved, the right half first, so that the recursion stays
\* shallow.
RECURSIVE AddRange(_, _, _, _, _)

AddJoined(left, right) == <<left[1] \o right[1], left[2]>>

AddLeft(xs, ys, lo, mid, right) ==
  IF right[2] = 0
  THEN AddJoined(AddRange(xs, ys, 0, lo, mid), right)
  ELSE AddJoined(AddRange(xs, ys, 1, lo, mid), right)

AddRange(xs, ys, c, lo, hi) ==
  IF lo > hi THEN <<<<>>, c>>
  ELSE IF lo = hi
  THEN <<<<(xs[lo] + ys[lo] + c) % 2>>, (xs[lo] + ys[lo] + c) \div 2>>
  ELSE AddLeft(xs, ys, lo, (lo + hi) \div 2,
               AddRange(xs, ys, c, (lo + hi) \div 2 + 1, hi))

CarryFirst(sc) == <<sc[2]>> \o sc[1]

\* the sum of two bit sequences of one length; one bit longer
AddBits(xs, ys, c) == CarryFirst(AddRange(xs, ys, c, 1, Len(xs)))

LeadingZeros(bits) ==
  IF \E k \in 1..Len(bits) : bits[k] = 1
  THEN (CHOOSE k \in 1..Len(bits) :
          bits[k] = 1 /\ \A j \in 1..(k - 1) : bits[j] = 0) - 1
  ELSE Len(bits)

\* the mantissa kept, rounded up (and renormalised when the carry runs out)
RoundedUp(e, m) ==
  IF Len(m) > MantissaBits
  THEN [e |-> e + 1, m |-> SubSeq(m, 1, MantissaBits)]
  ELSE [e |-> e, m |-> m]

\* bits (the first of them 1, more than MantissaBits of them) times 2^e,
\* with sticky telling whether anything non-zero lies beyond them, rounded
\* to nearest, ties to even
RoundBits(e, bits, sticky) ==
  IF /\ bits[MantissaBits + 1] = 1
     /\ \/ sticky
        \/ \E k \in (MantissaBits + 2)..Len(bits) : bits[k] = 1
        \/ bits[MantissaBits] = 1
  THEN RoundedUp(e + Len(bits) - MantissaBits,
                 Increment(SubSeq(bits, 1, MantissaBits)))
  ELSE [e |-> e + Len(bits) - MantissaBits, m |-> SubSeq(bits, 1, MantissaBits)]

\* bits times 2^e, leading zeros allowed, rounded
Normalised(e, bits, sticky) ==
  RoundBits(e, SubSeq(bits, LeadingZeros(bits) + 1, Len(bits)), sticky)

\* long division of the places lo..hi of bits by n, from remainder r:
\* <<quotient bits, remainder>>, the range halved as in AddRange
RECURSIVE DivRange(_, _, _, _, _)

DivJoined(left, right) == <<left[1] \o right[1], right[2]>>

DivRight(bits, n, mid, hi, left) ==
  DivJoined(left, DivRange(bits, n, left[2], mid + 1, hi))

DivRange(bits, n, r, lo, hi) ==
  IF lo > hi THEN <<<<>>, r>>
  ELSE IF lo = hi
  THEN <<<<(2 * r + bits[lo]) \div n>>, (2 * r + bits[lo]) % n>>
  ELSE DivRight(bits, n, (lo + hi) \div 2, hi,
                DivRange(bits, n, r, lo, (lo + hi) \div 2))

DivBits(bits, n, r) == DivRange(bits, n, r, 1, Len(bits))

QuotientRounded(e, qr) == Normalised(e, qr[1], qr[2] # 0)

\* the binary64 nearest to num / den, for 0 < num and 0 < den
DoubleOfRatio(num, den) ==
  QuotientRounded(-(2 * MantissaBits),
                  DivBits(NatBits(num) \o Zeros(2 * MantissaBits), den, 0))

\* the Number a parsed number is
DoubleOfDec(d) ==
  DoubleOfRatio(NatOfDigits(d[1] \o d[2]), PowerOfTen(Len(d[2])))

\* x + y of two positive Numbers, x.e >= y.e
AddAligned(x, y) ==
  Normalised(y.e, AddBits(x.m \o Zeros(x.e - y.e), Zeros(x.e - y.e) \o y.m, 0),
             FALSE)

\* x + y
DoubleAdd(x, y) == IF x.e >= y.e THEN AddAligned(x, y) ELSE AddAligned(y, x)

\* x / n for an integer n > 0
DoubleDivNat(x, n) ==
  QuotientRounded(x.e - MantissaBits,
                  DivBits(x.m \o Zeros(MantissaBits), n, 0))

BitsLess(xs, ys) ==
  \E k \in 1..Len(xs) :
    xs[k] < ys[k] /\ \A j \in 1..(k - 1) : xs[j] = ys[j]

\* x < y and x <= y of positive Numbers
DoubleLess(x, y) == x.e < y.e \/ (x.e = y.e /\ BitsLess(x.m, y.m))

DoubleLeq(x, y) == ~DoubleLess(y, x)

-----------------------------------------------------------------------------
(* The Product model and its aggregators.  A product is held by its        *)
(* priceHistory, a sequence of price points; products is the collection, *)
(* the stored documents in the order of their insertion.                  *)

Infinity == <<"Infinity">>

\* this.priceHistory.map(p => p.price)
PricesOf(product) ==
  [k \in 1..Len(product.priceHistory) |-> product.priceHistory[k].price]

\* a faulty variant: the first point taken for the current one
getCurrentPrice_First(product) ==
  IF Len(product.priceHistory) = 0 THEN Null ELSE product.priceHistory[1]

getCurrentPrice(product) ==
  IF Len(product.priceHistory) = 0 THEN Null
  ELSE product.priceHistory[Len(product.priceHistory)]

\* a faulty variant: Math.min of no argument is Infinity
getMinPrice_Unguarded(product) ==
  IF Len(product.priceHistory) = 0 THEN Infinity ELSE MathMin(PricesOf(product))

getMinPrice(product) ==
  IF Len(product.priceHistory) = 0 THEN Null ELSE MathMin(PricesOf(product))

getMaxPrice(product) ==
  IF Len(product.priceHistory) = 0 THEN Null ELSE MathMax(PricesOf(product))

\* this.priceHistory.reduce((acc, p) => acc + p.price, 0) over the first n
\* points, n > 0: 0 + price is the price itself, each further sum is rounded
RECURSIVE SumPrices(_, _)
SumPrices(prices, n) ==
  IF n = 1 THEN DoubleOfDec(prices[1])
  ELSE DoubleAdd(SumPrices(prices, n - 1), DoubleOfDec(prices[n]))

getAvgPrice(product) ==
  IF Len(product.priceHistory) = 0 THEN Null
  ELSE DoubleDivNat(SumPrices(PricesOf(product), Len(product.priceHistory)),
                    Len(product.priceHistory))

\* GET /barcode/:barcode of a stored product: what it adds to the document
ProductStats(product) ==
  [currentPrice |-> getCurrentPrice(product),
   minPrice |-> getMinPrice(product),
   maxPrice |-> getMaxPrice(product),
   avgPrice |-> getAvgPrice(product),
   priceCount |-> Len(product.priceHistory)]

-----------------------------------------------------------------------------
(* The inputs: every text that is a concatenation of at most a bounded     *)
(* number of segments of a vocabulary.                                     *)

RECURSIVE Flatten(_)
Flatten(segs) == IF segs = <<>> THEN <<>> ELSE Head(segs) \o Flatten(Tail(segs))

TextsOver(vocabulary, n) ==
  {Flatten(segs) : segs \in UNION {[1..k -> vocabulary] : k \in 0..n}}

MaxSegments == 3

\* the number of scan requests
MaxScans == 3

\* segments of the texts given to parseOcrResult
\*  199.99  249,99  5  space  руб  цена:  АКЦИЯ  1000000
ParseVocabulary ==
  { <<"1", "9", "9", ".", "9", "9">>,
    <<"2", "4", "9", ",", "9", "9">>,
    <<"5">>,
    <<" ">>,
    <<"ru_r", "ru_u", "ru_b">>,
    <<"ru_c", "ru_e", "ru_n", "ru_a", ":">>,
    <<"RU_A", "RU_K", "RU_C", "RU_I", "RU_YA">>,
    <<"1", "0", "0", "0", "0", "0", "0">> }

\* segments of the texts given to extractPrice
\*  199.99  5,00  5  0  1000000  999999  .  99  space  руб  цена:  стоимость
PriceVocabulary ==
  { <<"1", "9", "9", ".", "9", "9">>,
    <<"5", ",", "0", "0">>,
    <<"5">>,
    <<"0">>,
    <<"1", "0", "0", "0", "0", "0", "0">>,
    <<"9", "9", "9", "9", "9", "9">>,
    <<".">>,
    <<"9", "9">>,
    <<" ">>,
    <<"ru_r", "ru_u", "ru_b">>,
    <<"ru_c", "ru_e", "ru_n", "ru_a", ":">>,
    <<"ru_s", "ru_t", "ru_o", "ru_i", "ru_m", "ru_o", "ru_s", "ru_t",
      "ru_soft">> }

\* segments of the texts given to extractDiscount
\*  -  space  %  0  5  20  99  100  5%  20%  100%  .  x
DiscountVocabulary ==
  { <<"2", "0", "%">>,
    <<"1", "0", "0", "%">>,
    <<"-">>,
    <<" ">>,
    <<"%">>,
    <<"0">>,
    <<"5">>,
    <<"2", "0">>,
    <<"9", "9">>,
    <<"1", "0", "0">>,
    <<"5", "%">>,
    <<".">>,
    <<"x">> }

\* segments of the texts given to extractBarcode
\*  4607025392244  12345678  123456789012  4607025392244␣  12345678␣
\*  123456789012␣  7  a  б
BarcodeVocabulary ==
  { <<"4", "6", "0", "7", "0", "2", "5", "3", "9", "2", "2", "4", "4">>,
    <<"1", "2", "3", "4", "5", "6", "7", "8">>,
    <<"1", "2", "3", "4", "5", "6", "7", "8", "9", "0", "1", "2">>,
    <<"4", "6", "0", "7", "0", "2", "5", "3", "9", "2", "2", "4", "4", " ">>,
    <<"1", "2", "3", "4", "5", "6", "7", "8", " ">>,
    <<"1", "2", "3", "4", "5", "6", "7", "8", "9", "0", "1", "2", " ">>,
    <<"7">>,
    <<"a">>,
    <<"_">>,
    <<"ru_b">> }

\* segments of the texts given to detectCurrency
\*  руб  ₽  $  usd  €  евро  KZT  грн  Br  бел  space  100
CurrencyVocabulary ==
  { <<"ru_r", "ru_u", "ru_b">>,
    <<"rub_sign">>,
    <<"$">>,
    <<"u", "s", "d">>,
    <<"euro_sign">>,
    <<"ru_e", "ru_v", "ru_r", "ru_o">>,
    <<"K", "Z", "T">>,
    <<"ru_g", "ru_r", "ru_n">>,
    <<"B", "r">>,
    <<"ru_b", "ru_e", "ru_l">>,
    <<" ">>,
    <<"1", "0", "0">> }

\* segments of the texts given to detectPromo
\*  акция  скидки  распродажа  специальная  цена  выгодно  SALE  промо
\*  -20%  20%  off  старая  было  красная  жёлтая  \n
PromoVocabulary ==
  { <<"ru_a", "ru_k", "ru_c", "ru_i", "ru_ya">>,
    <<"ru_s", "ru_k", "ru_i", "ru_d", "ru_k", "ru_i">>,
    <<"ru_r", "ru_a", "ru_s", "ru_p", "ru_r", "ru_o", "ru_d", "ru_a",
      "ru_zh", "ru_a">>,
    <<"ru_s", "ru_p", "ru_e", "ru_c", "ru_i", "ru_a", "ru_l", "ru_soft",
      "ru_n", "ru_a", "ru_ya">>,
    <<"ru_c", "ru_e", "ru_n", "ru_a">>,
    <<"ru_v", "ru_y", "ru_g", "ru_o", "ru_d", "ru_n", "ru_o">>,
    <<"S", "A", "L", "E">>,
    <<"ru_p", "ru_r", "ru_o", "ru_m", "ru_o">>,
    <<"-", "2", "0", "%">>,
    <<"2", "0", "%">>,
    <<"o", "f", "f">>,
    <<"ru_s", "ru_t", "ru_a", "ru_r", "ru_a", "ru_ya">>,
    <<"ru_b", "ru_y", "ru_l", "ru_o">>,
    <<"ru_k", "ru_r", "ru_a", "ru_s", "ru_n", "ru_a", "ru_ya">>,
    <<"ru_zh", "ru_yo", "ru_l", "ru_t", "ru_a", "ru_ya">>,
    <<"\n">> }

\* segments of the texts given to extractUnit
\*  за  /  space  кг  шт  л  г  мл  уп  килограмм  штук  литр  грамм
\*  миллилитр  упаковка  р
UnitVocabulary ==
  { <<"ru_z", "ru_a">>,
    <<"/">>,
    <<" ">>,
    <<"ru_k", "ru_g">>,
    <<"ru_sh", "ru_t">>,
    <<"ru_l">>,
    <<"ru_g">>,
    <<"ru_m", "ru_l">>,
    <<"ru_u", "ru_p">>,
    <<"ru_k", "ru_i", "ru_l", "ru_o", "ru_g", "ru_r", "ru_a", "ru_m",
      "ru_m">>,
    <<"ru_sh", "ru_t", "ru_u", "ru_k">>,
    <<"ru_l", "ru_i", "ru_t", "ru_r">>,
    <<"ru_g", "ru_r", "ru_a", "ru_m", "ru_m">>,
    <<"ru_m", "ru_i", "ru_l", "ru_l", "ru_i", "ru_l", "ru_i", "ru_t",
      "ru_r">>,
    <<"ru_u", "ru_p", "ru_a", "ru_k", "ru_o", "ru_v", "ru_k", "ru_a">>,
    <<"ru_r">> }

\* the scenario texts of the specification (the empty text is a text of
\* every vocabulary)
\* Молоко 2.5% 1л. Цена: 89.90 руб
\* АКЦИЯ! Было 249.99 руб, стало 199.99 руб, скидка -20%
\* 4607025392244 Хлеб белый
MilkScenario ==
  <<"RU_M", "ru_o", "ru_l", "ru_o", "ru_k", "ru_o", " ", "2", ".", "5",
  "%", " ", "1", "ru_l", ".", " ", "RU_C", "ru_e", "ru_n", "ru_a", ":",
  " ", "8", "9", ".", "9", "0", " ", "ru_r", "ru_u", "ru_b">>

PromoScenario ==
  <<"RU_A", "RU_K", "RU_C", "RU_I", "RU_YA", "!", " ", "RU_B", "ru_y",
  "ru_l", "ru_o", " ", "2", "4", "9", ".", "9", "9", " ", "ru_r",
  "ru_u", "ru_b", ",", " ", "ru_s", "ru_t", "ru_a", "ru_l", "ru_o", " ",
  "1", "9", "9", ".", "9", "9", " ", "ru_r", "ru_u", "ru_b", ",", " ",
  "ru_s", "ru_k", "ru_i", "ru_d", "ru_k", "ru_a", " ", "-", "2", "0",
  "%">>

BarcodeScenario ==
  <<"4", "6", "0", "7", "0", "2", "5", "3", "9", "2", "2", "4", "4", " ",
  "RU_H", "ru_l", "ru_e", "ru_b", " ", "ru_b", "ru_e", "ru_l", "ru_y",
  "ru_j">>

Scenarios == {MilkScenario, PromoScenario, BarcodeScenario}

-----------------------------------------------------------------------------
(* The state machine: one call of an exported function on the input text.  *)
(* called names the function that has returned ("none" before the call)    *)
(* and ret is what it returned.                                            *)

\* no product stored
NoProducts == <<>>

\* a scan request that has not reached the handler body: price and barcode
\* are those of parsedData, _id is product._id and productId the variable
\* of the handler
NewScan ==
  [pc |-> "start", price |-> Null, barcode |-> Null, isNew |-> FALSE,
   _id |-> Null, history |-> <<>>, pushed |-> <<>>, productId |-> Null]

\* the arrays and the regular expression objects the calls made so far have
\* left behind (none is reachable from a later call): the array prices and
\* the lastIndex of each of the four price patterns, the array discounts
\* and the lastIndex of the discount pattern
NoObjects ==
  [prices |-> <<>>, priceLastIndex |-> <<0, 0, 0, 0>>,
   discounts |-> <<>>, discountLastIndex |-> 0]

\* no request to /api/history has been made and no scan is recorded
HistoryIdle ==
  /\ scanHistory = {}
  /\ requests = <<>>

\* the AuthProvider as mounted without a stored token, its effect run
FrontendIdle ==
  /\ provider = [user |-> Null, token |-> Null, isLoading |-> FALSE]
  /\ localStorage = Null
  /\ pending = EmptyBag

\* the parser not called, no product stored and no scan request made
ScannerInit(texts) ==
  /\ text \in texts
  /\ called = "none"
  /\ ret = Null
  /\ products = NoProducts
  /\ scans = [r \in 1..MaxScans |-> NewScan]
  /\ objects = NoObjects
  /\ returns = <<>>

InitOver(texts) ==
  /\ ScannerInit(texts)
  /\ HistoryIdle
  /\ FrontendIdle

Call(name, value) ==
  /\ called = "none"
  /\ called' = name
  /\ ret' = value
  /\ UNCHANGED <<text, products, scans, objects, returns, historyVars, frontendVars>>

CallParseOcrResult == Call("parseOcrResult", parseOcrResult(text))

CallExtractPrice == Call("extractPrice", extractPrice(text))

CallExtractDiscount == Call("extractDiscount", extractDiscount(text))

CallExtractBarcode == Call("extractBarcode", extractBarcode(text))

CallDetectCurrency == Call("detectCurrency", detectCurrency(text))

CallDetectPromo == Call("detectPromo", detectPromo(text))

CallExtractUnit == Call("extractUnit", extractUnit(text))

Init == InitOver(TextsOver(ParseVocabulary, MaxSegments) \cup Scenarios)

Next == CallParseOcrResult

Spec == Init /\ [][Next]_vars

SpecExtractPrice ==
  InitOver(TextsOver(PriceVocabulary, MaxSegments)) /\ [][CallExtractPrice]_vars

SpecExtractDiscount ==
  /\ InitOver(TextsOver(DiscountVocabulary, MaxSegments))
  /\ [][CallExtractDiscount]_vars

\* the texts extractBarcode is called on
BarcodeTexts == TextsOver(BarcodeVocabulary, MaxSegments) \cup {BarcodeScenario}

SpecExtractBarcode ==
  /\ InitOver(BarcodeTexts)
  /\ [][CallExtractBarcode]_vars

SpecDetectCurrency ==
  /\ InitOver(TextsOver(CurrencyVocabulary, MaxSegments))
  /\ [][CallDetectCurrency]_vars

SpecDetectPromo ==
  InitOver(TextsOver(PromoVocabulary, MaxSegments)) /\ [][CallDetectPromo]_vars

SpecExtractUnit ==
  InitOver(TextsOver(UnitVocabulary, MaxSegments)) /\ [][CallExtractUnit]_vars

-----------------------------------------------------------------------------
(* POST /api/scan.  The handler is asynchronous: between the reply to      *)
(* Product.findOne and the write of product.save() other requests run.     *)
(* Requests are numbered in the order in which they reach findOne.  The    *)
(* requests here are anonymous (userId is left out of the price point),    *)
(* and scannedAt is the number of the request.                             *)

\* the texts the vision model extracts:
\*   4607025392244 89.90
\*   4607025392244 5 руб
\*   12345678 АКЦИЯ 249.99 199.99
\*   4607025392244
\*   89.90
ScanTexts ==
  { <<"4", "6", "0", "7", "0", "2", "5", "3", "9", "2", "2", "4", "4", " ",
      "8", "9", ".", "9", "0">>,
    <<"4", "6", "0", "7", "0", "2", "5", "3", "9", "2", "2", "4", "4", " ",
      "5", " ", "ru_r", "ru_u", "ru_b">>,
    <<"1", "2", "3", "4", "5", "6", "7", "8", " ", "RU_A", "RU_K", "RU_C",
      "RU_I", "RU_YA", " ", "2", "4", "9", ".", "9", "9", " ", "1", "9", "9",
      ".", "9", "9">>,
    <<"4", "6", "0", "7", "0", "2", "5", "3", "9", "2", "2", "4", "4">>,
    <<"8", "9", ".", "9", "0">> }

\* product.priceHistory.push({...}) when parsedData.price is truthy
PointsPushed(r, parsedData) ==
  IF parsedData.price # Null /\ parsedData.price # DecOfNat(0)
  THEN <<[price |-> parsedData.price,
          originalPrice |-> parsedData.originalPrice,
          currency |-> parsedData.currency,
          isPromo |-> parsedData.isPromo,
          scannedAt |-> r]>>
  ELSE <<>>

\* the _id of the document that request r creates
ObjectId(r) == <<"ObjectId", r>>

\* the barcodes of the documents of a collection
Barcodes(collection) ==
  {collection[i].barcode : i \in 1..Len(collection)}

\* Product.findOne({ barcode: b }) on a collection that holds the barcode:
\* the first document with it
findOne(collection, b) ==
  collection[CHOOSE i \in 1..Len(collection) :
               /\ collection[i].barcode = b
               /\ \A j \in 1..(i - 1) : collection[j].barcode # b]

\* priceHistory of the document stored under barcode b, none when absent
StoredHistory(b) ==
  IF b \in Barcodes(products) THEN findOne(products, b).priceHistory ELSE <<>>

\* the product of the handler after findOne or new Product: its _id
ProductIdFor(r, b) ==
  IF b \in Barcodes(products) THEN findOne(products, b)._id ELSE ObjectId(r)

\* the handler from parseOcrResult to the call of product.save(): without a
\* barcode no product is touched and the scan record is saved with
\* productId null; with one, the product is read (history is the
\* priceHistory read) or created, and the price point is pushed onto the
\* handler's copy
ScanFound(r, parsedData) ==
  /\ scans' = [scans EXCEPT ![r] =
       IF parsedData.barcode = Null
       THEN [NewScan EXCEPT !.pc = "done", !.price = parsedData.price]
       ELSE [pc |-> "saving",
             price |-> parsedData.price,
             barcode |-> parsedData.barcode,
             isNew |-> parsedData.barcode \notin Barcodes(products),
             _id |-> ProductIdFor(r, parsedData.barcode),
             history |-> StoredHistory(parsedData.barcode),
             pushed |-> PointsPushed(r, parsedData),
             productId |-> Null]]
  /\ UNCHANGED <<text, called, ret, products, objects, returns, historyVars, frontendVars>>

ScanFind(r, extractedText) ==
  /\ scans[r].pc = "start"
  /\ \A q \in 1..(r - 1) : scans[q].pc # "start"
  /\ ScanFound(r, parseOcrResult(extractedText))

\* a faulty variant: the whole array written back from the handler's copy,
\* as it was read by findOne
SavedHistory_Overwritten(r, found) ==
  scans[r].history \o scans[r].pushed

\* the priceHistory product.save() leaves in the database: a new document
\* is inserted as built; of a document that was read, save() sends the
\* pushed points alone, which the database appends ($push)
SavedHistory(r, found) ==
  IF scans[r].isNew THEN scans[r].pushed ELSE found \o scans[r].pushed

\* a faulty variant: no index on barcode
UniqueIndexAdmits_NoIndex(collection, b) == TRUE

\* barcode: { unique: true }: the index admits the insert of a document
\* with barcode b when no stored document has it
UniqueIndexAdmits(collection, b) == b \notin Barcodes(collection)

\* the collection after product.save() of request r: an insert, or an
\* update of the document with the _id that was read
SavedProducts(r) ==
  IF scans[r].isNew
  THEN Append(products, [_id |-> scans[r]._id,
                         barcode |-> scans[r].barcode,
                         priceHistory |-> SavedHistory(r, <<>>)])
  ELSE [i \in 1..Len(products) |->
          IF products[i]._id = scans[r]._id
          THEN [products[i] EXCEPT
                  !.priceHistory = SavedHistory(r, products[i].priceHistory)]
          ELSE products[i]]

\* product.save() succeeds, productId = product._id, and the scan record is
\* saved and the response sent
ScanSave(r) ==
  /\ scans[r].pc = "saving"
  /\ scans[r].isNew => UniqueIndexAdmits(products, scans[r].barcode)
  /\ products' = SavedProducts(r)
  /\ scans' = [scans EXCEPT ![r].pc = "done", ![r].productId = scans[r]._id]
  /\ UNCHANGED <<text, called, ret, objects, returns, historyVars, frontendVars>>

\* product.save() of a new document throws the duplicate key error of the
\* unique index: a request that ran findOne before has inserted the barcode
\* since; the catch block answers 500 and nothing is written
ScanSaveDuplicate(r) ==
  /\ scans[r].pc = "saving"
  /\ scans[r].isNew
  /\ ~UniqueIndexAdmits(products, scans[r].barcode)
  /\ scans' = [scans EXCEPT ![r].pc = "duplicate"]
  /\ UNCHANGED <<text, called, ret, products, objects, returns, historyVars, frontendVars>>

\* product.save() throws for a cause outside the code (the connection): the
\* catch block answers 500 and nothing is written
ScanSaveFails(r) ==
  /\ scans[r].pc = "saving"
  /\ scans' = [scans EXCEPT ![r].pc = "failed"]
  /\ UNCHANGED <<text, called, ret, products, objects, returns, historyVars, frontendVars>>

\* GET /barcode/:barcode of a stored product
GetProductByBarcode(b) ==
  /\ called' = "getProduct"
  /\ ret' = ProductStats(findOne(products, b))
  /\ UNCHANGED <<text, products, scans, objects, returns, historyVars, frontendVars>>

NextScan ==
  \/ \E r \in 1..MaxScans, extractedText \in ScanTexts : ScanFind(r, extractedText)
  \/ \E r \in 1..MaxScans : ScanSave(r)
  \/ \E r \in 1..MaxScans : ScanSaveDuplicate(r)
  \/ \E r \in 1..MaxScans : ScanSaveFails(r)
  \/ \E b \in Barcodes(products) : GetProductByBarcode(b)

SpecScan == InitOver({<<>>}) /\ [][NextScan]_vars

-----------------------------------------------------------------------------
(* GET /api/products/:id/price-history.  The query parameters are strings  *)
(* (Null when absent); a date is the number of the day, written in digits, *)
(* and the scannedAt of the point at position k of a history is day k.     *)

MaxPoints == 3

DefaultLimit == 100

\* the prices of the stored points: 5, 89.9 and 199.99
HistoryPrices ==
  {Dec(<<5>>, <<>>), Dec(<<8, 9>>, <<9>>), Dec(<<1, 9, 9>>, <<9, 9>>)}

\* the point a scan of the price on day k has pushed
PointOn(k, price) ==
  [price |-> price, originalPrice |-> Null, currency |-> <<"R", "U", "B">>,
   isPromo |-> FALSE, scannedAt |-> k]

\* the stored histories of up to MaxPoints points
Histories ==
  UNION {{[k \in 1..n |-> PointOn(k, prices[k])] :
            prices \in [1..n -> HistoryPrices]} : n \in 0..MaxPoints}

\* the values of startDate and of endDate
DateParameters == {Null} \cup {<<DigitChars[d + 1]>> : d \in 1..MaxPoints}

\* the values of limit: absent, "0", "1", "2", "-1", "abc"
LimitParameters ==
  {Null, <<"0">>, <<"1">>, <<"2">>, <<"-", "1">>, <<"a", "b", "c">>}

\* new Date(str) of a date string: its day
DateOf(str) == NatOfDigits(Digits(str, 0, Len(str)))

\* history.filter(h => h.scannedAt >= new Date(startDate)) when startDate
\* is given
FilterFrom(history, startDate) ==
  IF startDate = Null THEN history
  ELSE SelectSeq(history, LAMBDA h : h.scannedAt >= DateOf(startDate))

\* history.filter(h => h.scannedAt <= new Date(endDate)) when endDate is given
FilterTo(history, endDate) ==
  IF endDate = Null THEN history
  ELSE SelectSeq(history, LAMBDA h : h.scannedAt <= DateOf(endDate))

\* the digits parseInt reads after the sign of str
LimitDigits(str) ==
  IF str # <<>> /\ str[1] \in {"-", "+"}
  THEN Digits(str, 1, RunEnd(Set(Digit), str, FALSE, 1))
  ELSE Digits(str, 0, RunEnd(Set(Digit), str, FALSE, 0))

\* the index slice(-parseInt(limit)) of an array of n elements starts at:
\* limit is 100 when absent; parseInt of a string without digits is NaN and
\* slice(NaN) starts at 0; a start below 0 counts from the end and one above
\* 0, the negative of a negative limit, from the front; -0 is 0
SliceStart(limit, n) ==
  IF limit = Null THEN IF n > DefaultLimit THEN n - DefaultLimit ELSE 0
  ELSE IF LimitDigits(limit) = <<>> THEN 0
  ELSE IF limit[1] = "-"
  THEN IF NatOfDigits(LimitDigits(limit)) > n THEN n
       ELSE NatOfDigits(LimitDigits(limit))
  ELSE IF NatOfDigits(LimitDigits(limit)) > n THEN 0
  ELSE IF NatOfDigits(LimitDigits(limit)) = 0 THEN 0
  ELSE n - NatOfDigits(LimitDigits(limit))

\* history.slice(-parseInt(limit))
SliceLast(history, limit) ==
  SubSeq(history, SliceStart(limit, Len(history)) + 1, Len(history))

\* chartData
ChartData(history) ==
  [k \in 1..Len(history) |->
     [date |-> history[k].scannedAt, price |-> history[k].price,
      originalPrice |-> history[k].originalPrice,
      isPromo |-> history[k].isPromo]]

\* a faulty variant: the statistics of the points that are returned
PriceHistoryStats_OfData(product, history) ==
  [min |-> getMinPrice([priceHistory |-> history]),
   max |-> getMaxPrice([priceHistory |-> history]),
   avg |-> getAvgPrice([priceHistory |-> history]),
   count |-> Len(history)]

\* stats: of the product, whatever history has become
PriceHistoryStats(product, history) ==
  [min |-> getMinPrice(product),
   max |-> getMaxPrice(product),
   avg |-> getAvgPrice(product),
   count |-> Len(product.priceHistory)]

\* res.json({...}) for the product found and the history filtered and cut
PriceHistoryResponse(product, history) ==
  [status |-> 200, productId |-> product._id, barcode |-> product.barcode,
   data |-> ChartData(history),
   stats |-> PriceHistoryStats(product, history)]

\* the documents of the collection with the given _id
FoundById(id) == {i \in 1..Len(products) : products[i]._id = id}

\* the handler for a product that findById finds
GetPriceHistory(id, startDate, endDate, limit) ==
  /\ FoundById(id) # {}
  /\ called' = "getPriceHistory"
  /\ ret' = PriceHistoryResponse(
              products[CHOOSE i \in FoundById(id) : TRUE],
              SliceLast(FilterTo(FilterFrom(
                products[CHOOSE i \in FoundById(id) : TRUE].priceHistory,
                startDate), endDate), limit))
  /\ UNCHANGED <<text, products, scans, objects, returns, historyVars, frontendVars>>

\* the handler when findById finds nothing: 404
GetPriceHistoryNotFound(id) ==
  /\ FoundById(id) = {}
  /\ called' = "getPriceHistory"
  /\ ret' = [status |-> 404]
  /\ UNCHANGED <<text, products, scans, objects, returns, historyVars, frontendVars>>

NextPriceHistory ==
  \/ \E r \in 1..MaxScans, startDate \in DateParameters,
        endDate \in DateParameters, limit \in LimitParameters :
       GetPriceHistory(ObjectId(r), startDate, endDate, limit)
  \/ \E r \in 1..MaxScans : GetPriceHistoryNotFound(ObjectId(r))

\* one product stored, with any of the histories
InitPriceHistory ==
  /\ HistoryIdle
  /\ FrontendIdle
  /\ text = <<>>
  /\ called = "none"
  /\ ret = Null
  /\ \E history \in Histories :
       products = <<[_id |-> ObjectId(1),
                     barcode |-> SubSeq(BarcodeScenario, 1, 13),
                     priceHistory |-> history]>>
  /\ scans = [r \in 1..MaxScans |-> NewScan]
  /\ objects = NoObjects
  /\ returns = <<>>

SpecPriceHistory == InitPriceHistory /\ [][NextPriceHistory]_vars

-----------------------------------------------------------------------------
(* The middleware auth and optionalAuth and the routes GET and DELETE      *)
(* /api/history/:id.  A request runs its middleware up to the await of     *)
(* User.findById, resumes with the user found, and, if next() was called,  *)
(* runs its handler, whose one database operation is atomic.  Each request *)
(* counts the calls of next() and keeps the responses sent.                *)

\* the number of requests
MaxRequests == 2

\* the users of the User collection
StoredUsers == {1, 2}

\* the users a token was ever signed for: user 3 is no longer stored
SignedUsers == StoredUsers \cup {3}

\* user._id
UserId(u) == <<"User", u>>

\* generateToken(userId): the token signed for the user
generateToken(u) == <<"jwt1", "jwt2", "jwt3">>[u]

\* a string that is no token signed with JWT_SECRET
Garbage == "garbage"

\* the values of the Authorization header: absent, the scheme alone, the
\* scheme with a token, and a token without the scheme
Headers ==
  {Null, <<"Bearer ">>, <<"Bearer ", Garbage>>, <<generateToken(1)>>}
    \cup {<<"Bearer ", generateToken(u)>> : u \in SignedUsers}

\* req.header('Authorization')?.replace('Bearer ', ''): undefined without
\* the header, else the header less its first "Bearer "
HeaderToken(header) ==
  IF header = Null THEN Null
  ELSE IF header[1] = "Bearer " THEN Tail(header)
  ELSE header

\* !token: undefined and the empty string are falsy
Falsy(token) == token = Null \/ token = <<>>

\* jwt.verify(token, JWT_SECRET) returns the payload of a token it signed
\* and throws on anything else
Verifies(token) == \E u \in SignedUsers : token = <<generateToken(u)>>

\* decoded.userId
DecodedUserId(token) == CHOOSE u \in SignedUsers : token = <<generateToken(u)>>

\* User.findById(id): the document or null; a user document is written as
\* its _id, the one field of it the routes read
findUserById(u) == IF u \in StoredUsers THEN UserId(u) ELSE Null

\* the ids of the path: three records and one id no record has
RecordIds == {ObjectId(i) : i \in 1..4}

\* the scan records stored at first: one of each user and one without owner
StoredScans ==
  {[_id |-> ObjectId(1), userId |-> UserId(1)],
   [_id |-> ObjectId(2), userId |-> UserId(2)],
   [_id |-> ObjectId(3), userId |-> Null]}

\* a request not received yet
NewRequest ==
  [pc |-> "start", method |-> "GET", id |-> ObjectId(1), header |-> Null,
   decoded |-> 0, user |-> Null, token |-> Null, nexts |-> 0, sent |-> <<>>,
   scan |-> {}]

\* res.status(status).json(body), sent by the middleware or by the route
Send(req, by, status, body) ==
  [req EXCEPT !.pc = "done",
              !.sent = Append(@, [by |-> by, status |-> status, body |-> body])]

\* next()
CallNext(req) == [req EXCEPT !.pc = "handler", !.nexts = @ + 1]

\* auth up to the await of User.findById
authUntilAwait(req) ==
  IF Falsy(HeaderToken(req.header)) THEN Send(req, "auth", 401, Null)
  ELSE IF ~Verifies(HeaderToken(req.header)) THEN Send(req, "auth", 401, Null)
  ELSE [req EXCEPT !.pc = "lookup",
                   !.decoded = DecodedUserId(HeaderToken(req.header))]

\* a faulty variant: next() is called whether the user was found or not
authAfterAwait_Unchecked(req, user) ==
  CallNext([req EXCEPT !.user = user, !.token = HeaderToken(req.header)])

\* auth after the await
authAfterAwait(req, user) ==
  IF user = Null THEN Send(req, "auth", 401, Null)
  ELSE CallNext([req EXCEPT !.user = user, !.token = HeaderToken(req.header)])

\* optionalAuth up to the await of User.findById, or to its end
optionalAuthUntilAwait(req) ==
  IF Falsy(HeaderToken(req.header)) THEN CallNext(req)
  ELSE IF ~Verifies(HeaderToken(req.header)) THEN CallNext(req)
  ELSE [req EXCEPT !.pc = "lookup",
                   !.decoded = DecodedUserId(HeaderToken(req.header))]

\* optionalAuth after the await
optionalAuthAfterAwait(req, user) ==
  IF user = Null THEN CallNext(req)
  ELSE CallNext([req EXCEPT !.user = user, !.token = HeaderToken(req.header)])

\* which middleware the route of a method is registered with
Middleware(method) == IF method = "DELETE" THEN "auth" ELSE "optionalAuth"

\* the request arrives
Receive(r, method, id, header) ==
  /\ requests[r].pc = "start"
  /\ requests' = [requests EXCEPT ![r] = [@ EXCEPT !.pc = "middleware",
                                                   !.method = method,
                                                   !.id = id,
                                                   !.header = header]]
  /\ UNCHANGED <<text, called, ret, products, scans, objects, returns,
                 scanHistory, frontendVars>>

\* the middleware runs to its await or to its end
MiddlewareBegin(r) ==
  /\ requests[r].pc = "middleware"
  /\ requests' =
       [requests EXCEPT ![r] =
          IF Middleware(@.method) = "auth" THEN authUntilAwait(@)
          ELSE optionalAuthUntilAwait(@)]
  /\ UNCHANGED <<text, called, ret, products, scans, objects, returns,
                 scanHistory, frontendVars>>

\* User.findById resolves
MiddlewareResume(r) ==
  /\ requests[r].pc = "lookup"
  /\ requests' =
       [requests EXCEPT ![r] =
          IF Middleware(@.method) = "auth"
          THEN authAfterAwait(@, findUserById(@.decoded))
          ELSE optionalAuthAfterAwait(@, findUserById(@.decoded))]
  /\ UNCHANGED <<text, called, ret, products, scans, objects, returns,
                 scanHistory, frontendVars>>

\* User.findById rejects: the catch block of the middleware
MiddlewareLookupFails(r) ==
  /\ requests[r].pc = "lookup"
  /\ requests' =
       [requests EXCEPT ![r] =
          IF Middleware(@.method) = "auth" THEN Send(@, "auth", 401, Null)
          ELSE CallNext(@)]
  /\ UNCHANGED <<text, called, ret, products, scans, objects, returns,
                 scanHistory, frontendVars>>

\* ScanHistory.findById(id): the records with this _id (one at most)
ScanById(id) == {scan \in scanHistory : scan._id = id}

\* a faulty variant: only anonymous requests are refused
AccessDenied_AnonymousOnly(scan, user) == scan.userId # Null /\ user = Null

\* scan.userId && (!req.user || !scan.userId.equals(req.user._id))
AccessDenied(scan, user) ==
  /\ scan.userId # Null
  /\ user = Null \/ scan.userId # user

\* the handler of GET /:id once the record is read
getScanFound(req, scan) ==
  IF AccessDenied(scan, req.user)
  THEN Send([req EXCEPT !.scan = {scan}], "route", 403, Null)
  ELSE Send([req EXCEPT !.scan = {scan}], "route", 200, scan)

\* GET /api/history/:id
GetScan(r) ==
  /\ requests[r].pc = "handler"
  /\ requests[r].method = "GET"
  /\ requests' =
       [requests EXCEPT ![r] =
          IF ScanById(@.id) = {} THEN Send(@, "route", 404, Null)
          ELSE getScanFound(@, CHOOSE scan \in ScanById(@.id) : TRUE)]
  /\ UNCHANGED <<text, called, ret, products, scans, objects, returns,
                 scanHistory, frontendVars>>

\* ScanHistory.findOneAndDelete({_id, userId}): the records that match
ScanByIdOf(id, userId) ==
  {scan \in scanHistory : scan._id = id /\ scan.userId = userId}

\* DELETE /api/history/:id; reading req.user._id of no user throws, which
\* the catch block answers
DeleteScan(r) ==
  /\ requests[r].pc = "handler"
  /\ requests[r].method = "DELETE"
  /\ scanHistory' =
       IF requests[r].user = Null THEN scanHistory
       ELSE scanHistory \ ScanByIdOf(requests[r].id, requests[r].user)
  /\ requests' =
       [requests EXCEPT ![r] =
          IF @.user = Null THEN Send(@, "route", 500, Null)
          ELSE IF ScanByIdOf(@.id, @.user) = {}
          THEN Send([@ EXCEPT !.scan = {}], "route", 404, Null)
          ELSE Send([@ EXCEPT !.scan = ScanByIdOf(requests[r].id,
                                                  requests[r].user)],
                    "route", 200, Null)]
  /\ UNCHANGED <<text, called, ret, products, scans, objects, returns,
                 frontendVars>>

\* the database operation of the handler rejects: its catch block
HandlerFails(r) ==
  /\ requests[r].pc = "handler"
  /\ requests' = [requests EXCEPT ![r] = Send(@, "route", 500, Null)]
  /\ UNCHANGED <<text, called, ret, products, scans, objects, returns,
                 scanHistory, frontendVars>>

NextHistory ==
  \E r \in 1..MaxRequests :
    \/ \E method \in {"GET", "DELETE"}, id \in RecordIds, header \in Headers :
         Receive(r, method, id, header)
    \/ MiddlewareBegin(r)
    \/ MiddlewareResume(r)
    \/ MiddlewareLookupFails(r)
    \/ GetScan(r)
    \/ DeleteScan(r)
    \/ HandlerFails(r)

InitHistory ==
  /\ ScannerInit({<<>>})
  /\ FrontendIdle
  /\ scanHistory = StoredScans
  /\ requests = [r \in 1..MaxRequests |-> NewRequest]

SpecHistory == InitHistory /\ [][NextHistory]_vars

-----------------------------------------------------------------------------
(* The AuthProvider of the frontend.  provider holds its three states,     *)
(* localStorage the item 'token', and pending the calls of authApi in      *)
(* flight, each with the Authorization token fetchWithAuth read from       *)
(* localStorage when the call was made.  The effect on [token] runs with   *)
(* the render that a change of token causes, so it is part of the step     *)
(* that changes the token.                                                 *)

\* the number of calls in flight at one time
MaxPending == 2

\* the tokens the browser may hold when the provider mounts: none, one that
\* the server no longer accepts, the token of user 1
MountTokens == {Null, <<Garbage>>, <<generateToken(1)>>}

\* authApi.me() as sent with the stored token
MeCall(stored) == [kind |-> "me", user |-> Null, header |-> stored]

\* authApi.login / authApi.register of an account
AuthCall(kind, u) == [kind |-> kind, user |-> UserId(u), header |-> Null]

\* the token the server returns to a login or registration of user u
TokenOf(u) == <<generateToken(u)>>

\* the calls checkAuth starts when the effect runs for a token: authApi.me()
\* for a token, none for null
checkAuthCalls(token, stored) ==
  IF token # Null THEN SetToBag({MeCall(stored)}) ELSE EmptyBag

\* isLoading once the effect has run to its first await or to its end
checkAuthLoading(token, isLoading) == IF token # Null THEN isLoading ELSE FALSE

\* the effect runs when token differs from that of the last render
EffectRuns(token) == token # provider.token

\* login and register up to their await
StartAuth(kind, u) ==
  /\ BagCardinality(pending) < MaxPending
  /\ pending' = pending (+) SetToBag({AuthCall(kind, u)})
  /\ UNCHANGED <<text, called, ret, products, scans, objects, returns,
                 historyVars, provider, localStorage>>

\* login and register after their await: the server answered with the user
\* and a token
AuthResolves(call) ==
  /\ BagIn(call, pending)
  /\ call.kind \in {"login", "register"}
  /\ localStorage' = TokenOf(call.user[2])
  /\ provider' = [user |-> call.user, token |-> TokenOf(call.user[2]),
                  isLoading |-> provider.isLoading]
  /\ pending' =
       IF EffectRuns(TokenOf(call.user[2]))
       THEN (pending (-) SetToBag({call}))
              (+) checkAuthCalls(TokenOf(call.user[2]), TokenOf(call.user[2]))
       ELSE pending (-) SetToBag({call})
  /\ UNCHANGED <<text, called, ret, products, scans, objects, returns,
                 historyVars>>

\* the call of login or register throws: nothing is set
AuthRejects(call) ==
  /\ BagIn(call, pending)
  /\ call.kind \in {"login", "register"}
  /\ pending' = pending (-) SetToBag({call})
  /\ UNCHANGED <<text, called, ret, products, scans, objects, returns,
                 historyVars, provider, localStorage>>

\* logout, and the effect for the token null
Logout ==
  /\ localStorage' = Null
  /\ provider' = [user |-> Null, token |-> Null,
                  isLoading |-> IF EffectRuns(Null) THEN FALSE
                                ELSE provider.isLoading]
  /\ UNCHANGED <<text, called, ret, products, scans, objects, returns,
                 historyVars, pending>>

\* GET /auth/me answers with the user of a token the server accepts
MeUser(header) ==
  IF \E u \in StoredUsers : header = TokenOf(u)
  THEN UserId(CHOOSE u \in StoredUsers : header = TokenOf(u))
  ELSE Null

\* checkAuth after authApi.me() resolved: setUser(user), setIsLoading(false)
MeResolved(call) ==
  [user |-> MeUser(call.header), token |-> provider.token, isLoading |-> FALSE]

MeResolves(call) ==
  /\ BagIn(call, pending)
  /\ call.kind = "me"
  /\ MeUser(call.header) # Null
  /\ provider' = MeResolved(call)
  /\ pending' = pending (-) SetToBag({call})
  /\ UNCHANGED <<text, called, ret, products, scans, objects, returns,
                 historyVars, localStorage>>

\* checkAuth after authApi.me() threw (the token refused, or the network):
\* the stored token is removed and the token state set to null, and the
\* effect for the token null has nothing to do
MeRejects(call) ==
  /\ BagIn(call, pending)
  /\ call.kind = "me"
  /\ localStorage' = Null
  /\ provider' = [user |-> provider.user, token |-> Null, isLoading |-> FALSE]
  /\ pending' = pending (-) SetToBag({call})
  /\ UNCHANGED <<text, called, ret, products, scans, objects, returns,
                 historyVars>>

NextProvider ==
  \/ \E kind \in {"login", "register"}, u \in StoredUsers : StartAuth(kind, u)
  \/ \E call \in BagToSet(pending) : AuthResolves(call)
  \/ \E call \in BagToSet(pending) : AuthRejects(call)
  \/ Logout
  \/ \E call \in BagToSet(pending) : MeResolves(call)
  \/ \E call \in BagToSet(pending) : MeRejects(call)

\* the provider mounted with the stored token, its effect run
InitProvider ==
  /\ ScannerInit({<<>>})
  /\ HistoryIdle
  /\ localStorage \in MountTokens
  /\ provider = [user |-> Null, token |-> localStorage,
                 isLoading |-> localStorage # Null]
  /\ pending = checkAuthCalls(localStorage, localStorage)

SpecProvider == InitProvider /\ [][NextProvider]_vars

-----------------------------------------------------------------------------
(* Calls one after another, on texts that change from call to call, with   *)
(* the objects each call creates: a regular expression literal and an      *)
(* array literal in a function body make a new object at every call.       *)

MaxCalls == 3

\* "5 руб", "АКЦИЯ 249,99 -20%", "4607025392244 за кг 7 руб 5%"
CallTexts ==
  { <<"5", " ", "ru_r", "ru_u", "ru_b">>,
    <<"RU_A", "RU_K", "RU_C", "RU_I", "RU_YA", " ", "2", "4", "9", ",", "9",
      "9", " ", "-", "2", "0", "%">>,
    <<"4", "6", "0", "7", "0", "2", "5", "3", "9", "2", "2", "4", "4", " ",
      "ru_z", "ru_a", " ", "ru_k", "ru_g", " ", "7", " ", "ru_r", "ru_u",
      "ru_b", " ", "5", "%">> }

\* the lastIndex of the object a regular expression literal makes; the
\* argument is the lastIndex of the object it made at the call before
NewRegExp(lastIndex) == 0

\* a faulty variant: one array for all calls
NewArray_Kept(array) == array

\* const prices = [], const discounts = []; the argument is the array of the
\* call before
NewArray(array) == <<>>

\* the lastIndex of a pattern when its while loop is left: exec has returned
\* null and has set it to 0
LastIndexAfterLoop(ms) == 0

\* the matches of the while loop of pattern k, on the object made for the call
PriceMatches(t, k, old) ==
  ExecAll(pricePatterns[k], t, TRUE, NewRegExp(old.priceLastIndex[k]))

\* what the for loop pushes from pattern k on
RECURSIVE PricesPushedBy(_, _, _)
PricesPushedBy(t, k, old) ==
  IF k > Len(pricePatterns) THEN <<>>
  ELSE PricesOfMatches(PriceMatches(t, k, old)) \o PricesPushedBy(t, k + 1, old)

\* the array prices at the return of extractPrice
PricesArray(t, old) == NewArray(old.prices) \o PricesPushedBy(t, 1, old)

extractPriceCall(t, old) == SortAscending(SetOrder(PricesArray(t, old)))

DiscountMatches(t, old) ==
  ExecAll(discountPattern, t, FALSE, NewRegExp(old.discountLastIndex))

\* the array discounts at the return of extractDiscount
DiscountsArray(t, old) ==
  NewArray(old.discounts) \o DiscountsOfMatches(DiscountMatches(t, old))

extractDiscountCall(t, old) == MaxDiscount(DiscountsArray(t, old))

parseOcrResultCall(t, old) ==
  ParsedData(t, extractPriceCall(t, old), detectCurrency(t), detectPromo(t),
             extractDiscountCall(t, old), extractBarcode(t), extractUnit(t))

\* the objects extractPrice leaves
PriceObjects(t, old) ==
  [old EXCEPT
     !.prices = PricesArray(t, old),
     !.priceLastIndex =
        [k \in 1..Len(pricePatterns) |->
           LastIndexAfterLoop(PriceMatches(t, k, old))]]

\* the objects extractDiscount leaves
DiscountObjects(t, old) ==
  [old EXCEPT
     !.discounts = DiscountsArray(t, old),
     !.discountLastIndex = LastIndexAfterLoop(DiscountMatches(t, old))]

\* a call of the function name on the text t that returns value and leaves
\* the objects left
Invoke(name, t, value, left) ==
  /\ Len(returns) < MaxCalls
  /\ text' = t
  /\ called' = name
  /\ ret' = value
  /\ objects' = left
  /\ returns' = Append(returns, [name |-> name, text |-> t, value |-> value])
  /\ UNCHANGED <<products, scans, historyVars, frontendVars>>

InvokeParseOcrResult(t) ==
  Invoke("parseOcrResult", t, parseOcrResultCall(t, objects),
         DiscountObjects(t, PriceObjects(t, objects)))

InvokeExtractPrice(t) ==
  Invoke("extractPrice", t, extractPriceCall(t, objects),
         PriceObjects(t, objects))

InvokeExtractDiscount(t) ==
  Invoke("extractDiscount", t, extractDiscountCall(t, objects),
         DiscountObjects(t, objects))

\* test and match on a regular expression without the g flag neither read
\* nor write lastIndex
InvokeExtractBarcode(t) ==
  Invoke("extractBarcode", t, extractBarcode(t), objects)

InvokeDetectCurrency(t) ==
  Invoke("detectCurrency", t, detectCurrency(t), objects)

InvokeDetectPromo(t) == Invoke("detectPromo", t, detectPromo(t), objects)

InvokeExtractUnit(t) == Invoke("extractUnit", t, extractUnit(t), objects)

NextCalls ==
  \/ \E t \in CallTexts : InvokeParseOcrResult(t)
  \/ \E t \in CallTexts : InvokeExtractPrice(t)
  \/ \E t \in CallTexts : InvokeExtractDiscount(t)
  \/ \E t \in CallTexts : InvokeExtractBarcode(t)
  \/ \E t \in CallTexts : InvokeDetectCurrency(t)
  \/ \E t \in CallTexts : InvokeDetectPromo(t)
  \/ \E t \in CallTexts : InvokeExtractUnit(t)

SpecCalls == InitOver(CallTexts) /\ [][NextCalls]_vars

-----------------------------------------------------------------------------
(* What the claims speak of, stated from the text and not from the code's  *)
(* intermediate arrays.                                                    *)

Elements(xs) == {xs[k] : k \in 1..Len(xs)}

Smallest(S) == CHOOSE x \in S : \A y \in S : DecLeq(x, y)

Largest(S) == CHOOSE x \in S : \A y \in S : DecLeq(y, x)

\* every number one of the four price patterns matches in t
MatchedNumbers(t) ==
  UNION {Elements(ParsedPrices(ExecAll(pricePatterns[k], t, TRUE, 0))) :
           k \in 1..Len(pricePatterns)}

\* the numeric candidates in the open range (0, 1000000)
ValidCandidates(t) ==
  {v \in MatchedNumbers(t) :
     v # NaN /\ DecLess(DecOfNat(0), v) /\ DecLess(v, DecOfNat(1000000))}

\* every match the loop of a g pattern takes is non-empty, so the loop's
\* lastIndex grows and the loop ends
LoopEnds(pattern, t, ic) ==
  \A m \in Elements(ExecAll(pattern, t, ic, 0)) : m.end > m.index

ParsedDataFields ==
  {"price", "originalPrice", "pricePerUnit", "currency", "currencySymbol",
   "unit", "barcode", "isPromo", "promoType", "discountPercent", "rawText"}

Returned(name) == called = name

-----------------------------------------------------------------------------
(* C1: for every input text parseOcrResult returns (each of its loops      *)
(* ends, and it hands back its record), and in that record price = null    *)
(* implies originalPrice = null.                                           *)
C1_ParseTotalAndNullPrice ==
  /\ \A k \in 1..Len(pricePatterns) : LoopEnds(pricePatterns[k], text, TRUE)
  /\ LoopEnds(discountPattern, text, FALSE)
  /\ Returned("parseOcrResult") =>
       /\ DOMAIN ret = ParsedDataFields
       /\ ret.price = Null => ret.originalPrice = Null

\* a promotional text with a number in it and no price: 1000000 руб АКЦИЯ
C1_Witness ==
  /\ Returned("parseOcrResult")
  /\ ret.isPromo
  /\ MatchedNumbers(text) # {}
  /\ ret.price = Null
  /\ ret.originalPrice = Null

(* C2: when extractPrice yields at least two candidates and detectPromo    *)
(* reports a promotion, price is the smallest candidate and originalPrice  *)
(* the largest, so originalPrice >= price.                                 *)
C2_PromoMinMax ==
  (/\ Returned("parseOcrResult")
   /\ Len(extractPrice(text)) >= 2
   /\ detectPromo(text).isPromo)
  => /\ ret.price = Smallest(Elements(extractPrice(text)))
     /\ ret.originalPrice = Largest(Elements(extractPrice(text)))
     /\ DecLeq(ret.price, ret.originalPrice)

\* three candidates of which the largest comes first in the text
C2_Witness ==
  /\ Returned("parseOcrResult")
  /\ detectPromo(text).isPromo
  /\ Len(extractPrice(text)) >= 3
  /\ PricesPushed(text, 1)[1] = ret.originalPrice
  /\ DecLess(ret.price, ret.originalPrice)

(* C3: originalPrice is non-null only if isPromo is true and at least two  *)
(* distinct valid candidates were extracted; with exactly one candidate    *)
(* and no promotion, price is that candidate and originalPrice is null.    *)
C3_OriginalPriceOnlyOnPromo ==
  Returned("parseOcrResult") =>
    /\ ret.originalPrice # Null =>
         ret.isPromo /\ Cardinality(ValidCandidates(text)) >= 2
    /\ (Cardinality(ValidCandidates(text)) = 1 /\ ~ret.isPromo) =>
         /\ ret.price \in ValidCandidates(text)
         /\ ret.originalPrice = Null

\* a promotion whose one candidate is matched twice: 199.99 199.99 АКЦИЯ
C3_Witness ==
  /\ Returned("parseOcrResult")
  /\ ret.isPromo
  /\ Len(PricesPushed(text, 1)) >= 2
  /\ Cardinality(ValidCandidates(text)) = 1
  /\ ret.price \in ValidCandidates(text)
  /\ ret.originalPrice = Null

(* C4: parseOcrResult returns price = null if and only if extractPrice     *)
(* found no numeric candidate in the open range (0, 1000000); otherwise    *)
(* price is the smallest candidate.                                        *)
C4_PriceNullIffNoCandidate ==
  Returned("parseOcrResult") =>
    /\ ret.price = Null <=> ValidCandidates(text) = {}
    /\ ValidCandidates(text) # {} => ret.price = Smallest(ValidCandidates(text))

\* a number is matched, and it is the end point 1000000 of the range
C4_Witness ==
  /\ Returned("parseOcrResult")
  /\ DecOfNat(1000000) \in MatchedNumbers(text)
  /\ ret.price = Null

(* C5: extractPrice returns a strictly ascending sequence without          *)
(* duplicates, every element v of which satisfies 0 < v < 1000000 (0 and   *)
(* 1000000 themselves are dropped); with no match it returns the empty     *)
(* sequence.                                                               *)
C5_ExtractPriceSortedInRange ==
  Returned("extractPrice") =>
    /\ \A k \in 1..(Len(ret) - 1) : DecLess(ret[k], ret[k + 1])
    /\ \A k \in 1..Len(ret) :
         DecLess(DecOfNat(0), ret[k]) /\ DecLess(ret[k], DecOfNat(1000000))
    /\ Elements(ret) = ValidCandidates(text)
    /\ MatchedNumbers(text) = {} => ret = <<>>

\* two candidates, the larger matched first, and a dropped end point
C5_Witness ==
  /\ Returned("extractPrice")
  /\ Len(ret) = 2
  /\ PricesPushed(text, 1)[1] = ret[2]
  /\ MatchedNumbers(text) \cap {DecOfNat(0), DecOfNat(1000000)} # {}

(* C6: extractDiscount returns the maximum over the occurrences of digits  *)
(* followed by % (white space may stand between the digits and the %)      *)
(* whose value lies in [1, 99]; 0 and 100 are discarded; it returns null   *)
(* when no occurrence qualifies; so a non-null result is an integer in     *)
(* [1, 99].                                                                *)

\* the values of the maximal digit runs of t that a % follows
PercentValues(t) ==
  {Dec(Digits(t, i - 1, j), <<>>) :
     <<i, j>> \in {r \in (1..Len(t)) \X (1..Len(t)) :
        /\ r[1] <= r[2]
        /\ \A k \in r[1]..r[2] : t[k] \in Digit
        /\ r[1] = 1 \/ t[r[1] - 1] \notin Digit
        /\ \E e \in (r[2] + 1)..Len(t) :
             /\ t[e] = "%"
             /\ \A k \in (r[2] + 1)..(e - 1) : t[k] \in Space}}

QualifyingDiscounts(t) ==
  {v \in PercentValues(t) : DecLeq(DecOfNat(1), v) /\ DecLeq(v, DecOfNat(99))}

C6_MaxDiscountInRange ==
  Returned("extractDiscount") =>
    /\ QualifyingDiscounts(text) = {} => ret = Null
    /\ QualifyingDiscounts(text) # {} => ret = Largest(QualifyingDiscounts(text))
    /\ ret # Null => ret \in {DecOfNat(n) : n \in 1..99}

\* a discarded 100, then the larger discount in front of the smaller
C6_Witness ==
  /\ Returned("extractDiscount")
  /\ Cardinality(QualifyingDiscounts(text)) >= 2
  /\ DecOfNat(100) \in PercentValues(text)
  /\ text[Len(text) - 1] = "5"
  /\ ret = Largest(QualifyingDiscounts(text))

(* C7: when the text contains standalone digit runs (runs that no digit,   *)
(* ASCII letter or underscore touches) of several of the lengths 13, 8 and  *)
(* 12, extractBarcode returns a 13-digit run in preference to an 8-digit    *)
(* run, and an 8-digit run in preference to a 12-digit run, wherever the    *)
(* runs stand in the text.                                                  *)

\* the standalone digit runs of t that are n long
StandaloneRuns(t, n) ==
  {SubSeq(t, i, i + n - 1) :
     i \in {i \in 1..(Len(t) - n + 1) :
        /\ \A k \in i..(i + n - 1) : t[k] \in Digit
        /\ i = 1 \/ t[i - 1] \notin WordChar
        /\ i + n - 1 = Len(t) \/ t[i + n] \notin WordChar}}

C7_BarcodePreference ==
  Returned("extractBarcode") =>
    /\ StandaloneRuns(text, 13) # {} => ret \in StandaloneRuns(text, 13)
    /\ (StandaloneRuns(text, 13) = {} /\ StandaloneRuns(text, 8) # {}) =>
         ret \in StandaloneRuns(text, 8)
    /\ (/\ StandaloneRuns(text, 13) = {}
        /\ StandaloneRuns(text, 8) = {}
        /\ StandaloneRuns(text, 12) # {}) => ret \in StandaloneRuns(text, 12)

\* runs of 12 and of 8 digits, the 12 digits first, and the 8 digits returned
C7_Witness ==
  /\ Returned("extractBarcode")
  /\ StandaloneRuns(text, 12) # {}
  /\ StandaloneRuns(text, 8) # {}
  /\ \A k \in 1..12 : text[k] \in Digit
  /\ ret \in StandaloneRuns(text, 8)

\* a run of 13 digits after a shorter run, and the 13 digits returned
C7_WitnessEan13 ==
  /\ Returned("extractBarcode")
  /\ StandaloneRuns(text, 8) \cup StandaloneRuns(text, 12) # {}
  /\ text[Len(text)] \in Digit
  /\ ret \in StandaloneRuns(text, 13)
  /\ ret # SubSeq(text, 1, 13)

\* w stands somewhere in t, letter case aside
Occurs(w, t) ==
  \E i \in 0..(Len(t) - Len(w)) :
    \A j \in 1..Len(w) : Canon(t[i + j]) = Canon(w[j])

\* t begins with w, letter case aside
StartsWith(w, t) ==
  /\ Len(w) <= Len(t)
  /\ \A j \in 1..Len(w) : Canon(t[j]) = Canon(w[j])

\* the least element of a non-empty set of rule numbers
FirstOf(S) == CHOOSE k \in S : \A j \in S : k <= j

(* C8: detectCurrency returns the code and symbol of the first rule, in    *)
(* the order RUB, USD, EUR, KZT, UAH, BYN, one of whose markers stands     *)
(* anywhere in the text, wherever the markers stand (a text with a RUB     *)
(* marker and a USD marker yields RUB); with no marker it returns          *)
(* (RUB, rouble sign).                                                     *)
CurrencyTable ==
  <<
    [currency |-> <<"R", "U", "B">>, symbol |-> <<"rub_sign">>,
     markers |-> {<<"ru_r", "ru_u", "ru_b">>,
                 <<"rub_sign">>,
                 <<"ru_r", "ru_u", "ru_b", "ru_l">>,
                 <<"R", "U", "B">>}],
    [currency |-> <<"U", "S", "D">>, symbol |-> <<"$">>,
     markers |-> {<<"$">>,
                 <<"U", "S", "D">>,
                 <<"ru_d", "ru_o", "ru_l", "ru_l">>}],
    [currency |-> <<"E", "U", "R">>, symbol |-> <<"euro_sign">>,
     markers |-> {<<"euro_sign">>,
                 <<"E", "U", "R">>,
                 <<"ru_e", "ru_v", "ru_r", "ru_o">>}],
    [currency |-> <<"K", "Z", "T">>, symbol |-> <<"tenge_sign">>,
     markers |-> {<<"tenge_sign">>,
                 <<"K", "Z", "T">>,
                 <<"ru_t", "ru_e", "ru_n", "ru_g", "ru_e">>}],
    [currency |-> <<"U", "A", "H">>, symbol |-> <<"hryvnia_sign">>,
     markers |-> {<<"hryvnia_sign">>,
                 <<"U", "A", "H">>,
                 <<"ru_g", "ru_r", "ru_n">>}],
    [currency |-> <<"B", "Y", "N">>, symbol |-> <<"B", "r">>,
     markers |-> {<<"B", "r">>,
                 <<"B", "Y", "N">>,
                 <<"ru_b", "ru_e", "ru_l">>}]
  >>

CurrenciesMarked(t) ==
  {k \in 1..Len(CurrencyTable) :
     \E w \in CurrencyTable[k].markers : Occurs(w, t)}

C8_CurrencyFirstRule ==
  Returned("detectCurrency") =>
    /\ CurrenciesMarked(text) = {} =>
         ret = [currency |-> CurrencyTable[1].currency,
                symbol |-> CurrencyTable[1].symbol]
    /\ CurrenciesMarked(text) # {} =>
         ret = [currency |-> CurrencyTable[FirstOf(CurrenciesMarked(text))].currency,
                symbol |-> CurrencyTable[FirstOf(CurrenciesMarked(text))].symbol]

\* a USD marker in front of a RUB marker, and RUB returned
C8_Witness ==
  /\ Returned("detectCurrency")
  /\ {1, 2} \subseteq CurrenciesMarked(text)
  /\ \E w \in CurrencyTable[2].markers : StartsWith(w, text)
  /\ ret.currency = <<"R", "U", "B">>

\* a marker of a later rule only, and that rule's currency returned
C8_WitnessLaterRule ==
  /\ Returned("detectCurrency")
  /\ CurrenciesMarked(text) = {4, 6}
  /\ ret.currency = <<"K", "Z", "T">>

(* C9: detectPromo returns isPromo = true and the label of the first rule  *)
(* in list order whose pattern matches (a text with both skidka and        *)
(* akciya yields akciya), and isPromo = false with promoType = null when   *)
(* no rule matches; so isPromo is true exactly when promoType is non-null. *)
PromoRulesMatching(t) ==
  {k \in 1..Len(promoPatterns) : Test(promoPatterns[k].pattern, t, TRUE)}

C9_PromoFirstRule ==
  Returned("detectPromo") =>
    /\ PromoRulesMatching(text) = {} =>
         ret = [isPromo |-> FALSE, promoType |-> Null]
    /\ PromoRulesMatching(text) # {} =>
         ret = [isPromo |-> TRUE,
                promoType |-> promoPatterns[FirstOf(PromoRulesMatching(text))].type]
    /\ (\E a \in {<<"ru_a", "ru_k", "ru_c", "ru_i", "ru_ya">>, <<"ru_a", "ru_k", "ru_c", "ru_i", "ru_i">>} : Occurs(a, text))
         /\ (\E d \in {<<"ru_s", "ru_k", "ru_i", "ru_d", "ru_k", "ru_a">>, <<"ru_s", "ru_k", "ru_i", "ru_d", "ru_k", "ru_i">>} : Occurs(d, text))
       => ret.promoType = <<"ru_a", "ru_k", "ru_c", "ru_i", "ru_ya">>
    /\ ret.isPromo <=> ret.promoType # Null

\* skidki in front of akciya, and akciya returned
C9_Witness ==
  /\ Returned("detectPromo")
  /\ StartsWith(<<"ru_s", "ru_k", "ru_i", "ru_d", "ru_k", "ru_i">>, text)
  /\ Occurs(<<"ru_a", "ru_k", "ru_c", "ru_i", "ru_ya">>, text)
  /\ ret = [isPromo |-> TRUE, promoType |-> <<"ru_a", "ru_k", "ru_c", "ru_i", "ru_ya">>]

\* only rules after the first two match, and the earliest of them labels
C9_WitnessLaterRule ==
  /\ Returned("detectPromo")
  /\ Cardinality(PromoRulesMatching(text)) >= 2
  /\ FirstOf(PromoRulesMatching(text)) > 2
  /\ ret.promoType = promoPatterns[FirstOf(PromoRulesMatching(text))].type

(* C10: extractUnit returns the unit of the first rule, in the order       *)
(* kg, sht, l, g, ml, up, whose pattern occurs in the text (a text         *)
(* matching both the l rule and the ml rule yields l), and null when no    *)
(* rule matches.                                                           *)
UnitOrder ==
  <<<<"ru_k", "ru_g">>, <<"ru_sh", "ru_t">>, <<"ru_l">>, <<"ru_g">>, <<"ru_m", "ru_l">>, <<"ru_u", "ru_p">>>>

UnitRulesMatching(t) ==
  {k \in 1..Len(unitPatterns) : Test(unitPatterns[k].pattern, t, TRUE)}

C10_UnitFirstRule ==
  Returned("extractUnit") =>
    /\ UnitRulesMatching(text) = {} => ret = Null
    /\ UnitRulesMatching(text) # {} =>
         ret = UnitOrder[FirstOf(UnitRulesMatching(text))]

\* the ml rule and the l rule match, the ml first in the text, and l returned
C10_Witness ==
  /\ Returned("extractUnit")
  /\ {3, 5} \subseteq UnitRulesMatching(text)
  /\ Exec(unitPatterns[5].pattern, text, TRUE, 0).index
       < Exec(unitPatterns[3].pattern, text, TRUE, 0).index
  /\ ret = UnitOrder[3]

(* C11: parseOcrResult sets pricePerUnit to the minimum of all extracted   *)
(* candidates when there is more than one candidate, and to null when      *)
(* there are zero or one.                                                  *)
C11_PricePerUnitMinimum ==
  Returned("parseOcrResult") =>
    /\ Cardinality(ValidCandidates(text)) > 1 =>
         ret.pricePerUnit = Smallest(ValidCandidates(text))
    /\ Cardinality(ValidCandidates(text)) <= 1 => ret.pricePerUnit = Null

\* no promotion, two candidates or more, the smallest not the first matched
C11_Witness ==
  /\ Returned("parseOcrResult")
  /\ ~ret.isPromo
  /\ Cardinality(ValidCandidates(text)) > 1
  /\ PricesPushed(text, 1)[1] # ret.pricePerUnit
  /\ ret.pricePerUnit = ret.price

\* one candidate, matched by two patterns, and no pricePerUnit
C11_WitnessOneCandidate ==
  /\ Returned("parseOcrResult")
  /\ Len(PricesPushed(text, 1)) > 1
  /\ Cardinality(ValidCandidates(text)) = 1
  /\ ret.pricePerUnit = Null

(* C12: for every input string, the empty string included, parseOcrResult  *)
(* returns a record with all eleven fields, rawText equal to the input,    *)
(* currency and currencySymbol never null, and every field for which       *)
(* nothing was detected null or at its default (for the empty string:      *)
(* currency RUB, symbol the rouble sign, isPromo false, the rest null).    *)
EmptyParsedData(t) ==
  [price |-> Null, originalPrice |-> Null, pricePerUnit |-> Null,
   currency |-> <<"R", "U", "B">>, currencySymbol |-> <<"rub_sign">>,
   unit |-> Null, barcode |-> Null, isPromo |-> FALSE, promoType |-> Null,
   discountPercent |-> Null, rawText |-> t]

C12_AllFieldsAndDefaults ==
  Returned("parseOcrResult") =>
    /\ DOMAIN ret = ParsedDataFields
    /\ ret.rawText = text
    /\ ret.currency # Null /\ ret.currencySymbol # Null
    /\ ValidCandidates(text) = {} =>
         ret.price = Null /\ ret.originalPrice = Null /\ ret.pricePerUnit = Null
    /\ CurrenciesMarked(text) = {} =>
         ret.currency = <<"R", "U", "B">> /\ ret.currencySymbol = <<"rub_sign">>
    /\ UnitRulesMatching(text) = {} => ret.unit = Null
    /\ (\A n \in {8, 12, 13} : StandaloneRuns(text, n) = {}) => ret.barcode = Null
    /\ PromoRulesMatching(text) = {} => ~ret.isPromo /\ ret.promoType = Null
    /\ QualifyingDiscounts(text) = {} => ret.discountPercent = Null
    /\ text = <<>> => ret = EmptyParsedData(text)

\* the empty string, parsed
C12_Witness ==
  /\ Returned("parseOcrResult")
  /\ text = <<>>
  /\ ret = EmptyParsedData(<<>>)

\* a text with digits and no currency marker: the default currency
C12_WitnessDefaultCurrency ==
  /\ Returned("parseOcrResult")
  /\ MatchedNumbers(text) # {}
  /\ CurrenciesMarked(text) = {}
  /\ ret.currency = <<"R", "U", "B">>

(* C13: for a product whose priceHistory is empty, getCurrentPrice,        *)
(* getMinPrice, getMaxPrice and getAvgPrice all return null (no exception,  *)
(* no Infinity, no NaN).                                                    *)
C13_EmptyHistoryAllNull ==
  (Returned("getProduct") /\ ret.priceCount = 0) =>
    /\ ret.currentPrice = Null
    /\ ret.minPrice = Null
    /\ ret.maxPrice = Null
    /\ ret.avgPrice = Null

\* a product stored by a scan with a barcode and no price, then read
C13_Witness ==
  /\ Returned("getProduct")
  /\ ret.priceCount = 0
  /\ \E b \in Barcodes(products) : StoredHistory(b) = <<>>
  /\ ret.avgPrice = Null

(* C14: for every non-empty priceHistory,                                   *)
(* getMinPrice() <= getAvgPrice() <= getMaxPrice(), getAvgPrice being the   *)
(* sum of all price fields divided by the number of points.                 *)
C14_MinAvgMax ==
  (Returned("getProduct") /\ ret.priceCount > 0) =>
    /\ DoubleLeq(DoubleOfDec(ret.minPrice), ret.avgPrice)
    /\ DoubleLeq(ret.avgPrice, DoubleOfDec(ret.maxPrice))

\* what the code returns for three points of one price: the sum is rounded,
\* and the average is greater than the maximum
C14_Witness ==
  /\ Returned("getProduct")
  /\ ret.priceCount = 3
  /\ ret.minPrice = ret.maxPrice
  /\ DoubleLess(DoubleOfDec(ret.maxPrice), ret.avgPrice)

(* C15: after any sequence of scans that appended price points to a        *)
(* product, getCurrentPrice() returns the point appended by the most       *)
(* recent such scan, the last element of priceHistory: every save that     *)
(* appends makes its point the current one, and the current point stays    *)
(* until the next append.                                                   *)
Appends(r) ==
  /\ scans[r].pc = "saving"
  /\ scans'[r].pc = "done"
  /\ scans[r].pushed # <<>>

C15_CurrentPriceIsLastAppended ==
  [][/\ \A r \in 1..MaxScans :
          Appends(r) =>
            getCurrentPrice(findOne(products', scans[r].barcode))
              = scans[r].pushed[1]
     /\ \A b \in Barcodes(products) :
          (/\ StoredHistory(b) # <<>>
           /\ ~\E r \in 1..MaxScans : Appends(r) /\ scans[r].barcode = b)
          => getCurrentPrice(findOne(products', b))
               = getCurrentPrice(findOne(products, b))]_vars

\* two points or more, the current one neither the first nor the minimum
C15_Witness ==
  \E b \in Barcodes(products) :
    /\ Len(StoredHistory(b)) >= 2
    /\ getCurrentPrice(findOne(products, b)) # StoredHistory(b)[1]
    /\ getCurrentPrice(findOne(products, b)).price
         # getMinPrice(findOne(products, b))

\* the current point pushed by an earlier request than the point before it
C15_WitnessSavedOutOfOrder ==
  \E b \in Barcodes(products) :
    /\ Len(StoredHistory(b)) >= 2
    /\ getCurrentPrice(findOne(products, b)).scannedAt
         < StoredHistory(b)[Len(StoredHistory(b)) - 1].scannedAt

(* C16: for the input "АКЦИЯ! Было 249.99 руб, стало 199.99 руб, скидка    *)
(* -20%", parseOcrResult returns isPromo = true, promoType = 'акция',      *)
(* discountPercent = 20, price = 199.99 and originalPrice = 249.99.        *)
C16_PromoScenario ==
  (Returned("parseOcrResult") /\ text = PromoScenario) =>
    /\ ret.isPromo
    /\ ret.promoType = <<"ru_a", "ru_k", "ru_c", "ru_i", "ru_ya">>
    /\ ret.discountPercent = Dec(<<2, 0>>, <<>>)
    /\ ret.price = Dec(<<1, 9, 9>>, <<9, 9>>)
    /\ ret.originalPrice = Dec(<<2, 4, 9>>, <<9, 9>>)

\* what the code returns for it: "99 руб", the end of "199.99 руб", is a
\* candidate of the second price pattern, and the smallest one
C16_Witness ==
  /\ Returned("parseOcrResult")
  /\ text = PromoScenario
  /\ extractPrice(text) = << Dec(<<9, 9>>, <<>>), Dec(<<1, 9, 9>>, <<9, 9>>),
                             Dec(<<2, 4, 9>>, <<9, 9>>) >>
  /\ ret.price = Dec(<<9, 9>>, <<>>)
  /\ ret.originalPrice = Dec(<<2, 4, 9>>, <<9, 9>>)

(* C17: for the input "Молоко 2.5% 1л. Цена: 89.90 руб", parseOcrResult    *)
(* returns price = 89.90, currency = 'RUB', currencySymbol the rouble     *)
(* sign, unit = 'л', isPromo = false and barcode = null.                   *)
C17_MilkScenario ==
  (Returned("parseOcrResult") /\ text = MilkScenario) =>
    /\ ret.price = Dec(<<8, 9>>, <<9>>)
    /\ ret.currency = <<"R", "U", "B">>
    /\ ret.currencySymbol = <<"rub_sign">>
    /\ ret.unit = <<"ru_l">>
    /\ ~ret.isPromo
    /\ ret.barcode = Null

\* what the code returns for it: "1л." has none of "за л", "/л", "литр", so
\* no unit rule matches
C17_Witness ==
  /\ Returned("parseOcrResult")
  /\ text = MilkScenario
  /\ Occurs(<<"1", "ru_l", ".">>, text)
  /\ UnitRulesMatching(text) = {}
  /\ ret.unit = Null
  /\ ret.price = Dec(<<8, 9>>, <<9>>)

(* C18: priceHistory is append-only: every scan request leaves all          *)
(* recorded price points of every product unchanged and in the same order, *)
(* and the only change it can make is to append at most one point at the   *)
(* end of the history of the product with the scanned barcode.             *)
IsPrefix(xs, ys) == Len(xs) <= Len(ys) /\ SubSeq(ys, 1, Len(xs)) = xs

HistoryAfter(b) ==
  IF b \in Barcodes(products') THEN findOne(products', b).priceHistory ELSE <<>>

\* some request with barcode b completes its save in this step
SavesFor(b) ==
  \E r \in 1..MaxScans :
    scans[r].pc = "saving" /\ scans'[r].pc = "done" /\ scans[r].barcode = b

C18_PriceHistoryAppendOnly ==
  [][/\ Barcodes(products) \subseteq Barcodes(products')
     /\ \A b \in Barcodes(products') :
          /\ IsPrefix(StoredHistory(b), HistoryAfter(b))
          /\ Len(HistoryAfter(b)) <= Len(StoredHistory(b)) + 1
          /\ (b \notin Barcodes(products) \/ HistoryAfter(b) # StoredHistory(b))
               => SavesFor(b)
     /\ Cardinality({b \in Barcodes(products') :
                       HistoryAfter(b) # StoredHistory(b)}) <= 1]_vars

\* two requests read the same history of one product and both appended
C18_Witness ==
  \E q, r \in 1..MaxScans :
    /\ q # r
    /\ scans[q].pc = "done" /\ scans[r].pc = "done"
    /\ scans[q].barcode = scans[r].barcode
    /\ scans[q].barcode # Null
    /\ ~scans[q].isNew /\ ~scans[r].isNew
    /\ scans[q].history = scans[r].history
    /\ scans[q].pushed # <<>> /\ scans[r].pushed # <<>>
    /\ Len(StoredHistory(scans[q].barcode)) = 3

DigitBoundedRuns(t, n) ==
  {SubSeq(t, i, i + n - 1) :
     i \in {i \in 1..(Len(t) - n + 1) :
        /\ \A k \in i..(i + n - 1) : t[k] \in Digit
        /\ i = 1 \/ t[i - 1] \notin Digit
        /\ i + n - 1 = Len(t) \/ t[i + n] \notin Digit}}

BarcodeLengths == {13, 8, 12}

C20_BarcodeDigitBounded ==
  Returned("extractBarcode") =>
    /\ ret # Null <=> \E n \in BarcodeLengths : DigitBoundedRuns(text, n) # {}
    /\ ret # Null => \E n \in BarcodeLengths : ret \in DigitBoundedRuns(text, n)

(* C20, amended: extractBarcode returns a non-null value exactly when the  *)
(* text contains a run of exactly 13, 8 or 12 digits that has on each side *)
(* the start or the end of the text or a character that is not a digit, a  *)
(* Latin letter or an underscore (a word boundary), and the value returned *)
(* is such a run; "4607025392244 Хлеб белый" yields "4607025392244".       *)
C20_BarcodeWordBounded ==
  Returned("extractBarcode") =>
    /\ ret # Null <=> \E n \in BarcodeLengths : StandaloneRuns(text, n) # {}
    /\ ret # Null => \E n \in BarcodeLengths : ret \in StandaloneRuns(text, n)
    /\ text = BarcodeScenario => ret = SubSeq(BarcodeScenario, 1, 13)

\* a run of 8, 12 or 13 digits between non-digits, a Latin letter or an
\* underscore next to it, no other run, and null returned
C20_Witness ==
  /\ Returned("extractBarcode")
  /\ \E n \in BarcodeLengths : DigitBoundedRuns(text, n) # {}
  /\ \A n \in BarcodeLengths : StandaloneRuns(text, n) = {}
  /\ \E k \in 1..Len(text) : text[k] \in {"a", "_"}
  /\ ret = Null

\* the scenario of the claim
C20_WitnessScenario ==
  /\ Returned("extractBarcode")
  /\ text = BarcodeScenario
  /\ ret = SubSeq(text, 1, 13)

\* a Cyrillic letter next to the run: a word boundary, and the run returned
C20_WitnessCyrillic ==
  /\ Returned("extractBarcode")
  /\ \E n \in BarcodeLengths :
       /\ Len(text) = n + 1
       /\ text[1] = "ru_b"
       /\ ret = SubSeq(text, 2, n + 1)

(* C21 as stated: extractBarcode can return an 8-digit substring taken     *)
(* from inside a longer contiguous digit sequence: there is a text whose   *)
(* only digits form one contiguous run of a length other than 8, 12 or 13  *)
(* for which extractBarcode returns a non-null 8-digit value.              *)
DigitPositions(t) == {k \in 1..Len(t) : t[k] \in Digit}

\* the digits of t are one contiguous run, of a length that is no barcode's
OneOddRun(t) ==
  /\ DigitPositions(t) # {}
  /\ \A k \in 1..Len(t) :
       (\E i, j \in DigitPositions(t) : i <= k /\ k <= j) => t[k] \in Digit
  /\ Cardinality(DigitPositions(t)) \notin BarcodeLengths

\* stated of the texts extractBarcode can have been called on
C21_EmbeddedRunReturned ==
  Returned("extractBarcode") =>
    \E t \in BarcodeTexts :
      /\ OneOddRun(t)
      /\ Cardinality(DigitPositions(t)) > 8
      /\ extractBarcode(t) # Null
      /\ Len(extractBarcode(t)) = 8

(* C21, amended: extractBarcode never returns digits taken from inside a   *)
(* longer digit sequence: for a text whose only digits form one contiguous *)
(* run of a length other than 8, 12 or 13 it returns null.                 *)
C21_NoEmbeddedRun ==
  (Returned("extractBarcode") /\ OneOddRun(text)) => ret = Null

\* a run of 10 digits and nothing else that is a digit: null
C21_Witness ==
  /\ Returned("extractBarcode")
  /\ OneOddRun(text)
  /\ Cardinality(DigitPositions(text)) = 10
  /\ ret = Null

(* C22: a scan request whose OCR step succeeds appends exactly one price   *)
(* point (carrying the parsed price, originalPrice, currency and isPromo)  *)
(* to the history of the product with the parsed barcode if and only if    *)
(* the parsed record has both a non-null barcode and a non-null price; a   *)
(* scan with a barcode but no price creates or keeps the product without   *)
(* adding a point, and a scan without a barcode touches no product and     *)
(* stores productId = null in its scan record.  Stated of the requests     *)
(* whose handler has ended with the database in service.                   *)

\* where the points pushed by request r are: document i, position k
PointsAppendedBy(r) ==
  {place \in (1..Len(products)) \X (1..MaxScans) :
     /\ place[2] <= Len(products[place[1]].priceHistory)
     /\ products[place[1]].priceHistory[place[2]].scannedAt = r}

Handled(r) == scans[r].pc \in {"done", "duplicate"}

C22_PointIffBarcodeAndPrice ==
  \A r \in 1..MaxScans :
    Handled(r) =>
      /\ Cardinality(PointsAppendedBy(r)) =
           IF scans[r].barcode # Null /\ scans[r].price # Null THEN 1 ELSE 0
      /\ \A place \in PointsAppendedBy(r) :
           /\ products[place[1]].barcode = scans[r].barcode
           /\ products[place[1]].priceHistory[place[2]] = scans[r].pushed[1]
           /\ scans[r].pushed[1].price = scans[r].price
      /\ (scans[r].barcode # Null /\ scans[r].price = Null) =>
           scans[r].barcode \in Barcodes(products)
      /\ scans[r].barcode = Null =>
           /\ scans[r].productId = Null
           /\ \A i \in 1..Len(products) : products[i]._id # ObjectId(r)

\* what the code does when two requests for a barcode not stored yet both
\* run findOne before either saves: the second save throws the duplicate
\* key error, and the point of that request is in no history
C22_Witness ==
  \E q, r \in 1..MaxScans :
    /\ scans[q].pc = "done"
    /\ scans[r].pc = "duplicate"
    /\ scans[r].barcode = scans[q].barcode
    /\ scans[r].price # Null
    /\ scans[r].pushed # <<>>
    /\ PointsAppendedBy(r) = {}
    /\ PointsAppendedBy(q) # {}

(* C23: GET /api/products/{id}/price-history returns in data at most limit *)
(* price points (default 100), namely the most recent ones that pass the   *)
(* startDate/endDate filter, in their original oldest-first order, for     *)
(* every value of the limit query parameter including 0 and negative       *)
(* numbers.                                                                *)

\* the number a limit string stands for, when it is a number
IsNumber(limit) ==
  /\ limit # <<>>
  /\ \/ \A k \in 1..Len(limit) : limit[k] \in Digit
     \/ /\ Len(limit) > 1
        /\ limit[1] = "-"
        /\ \A k \in 2..Len(limit) : limit[k] \in Digit

\* the most points a request with this limit may get
AtMost(limit) ==
  IF limit = Null THEN DefaultLimit
  ELSE IF limit[1] = "-" THEN 0
  ELSE NatOfDigits(Digits(limit, 0, Len(limit)))

\* the points of a history that pass the filter, oldest first
Passing(history, startDate, endDate) ==
  SelectSeq(history,
            LAMBDA h : /\ startDate # Null => h.scannedAt >= DateOf(startDate)
                       /\ endDate # Null => h.scannedAt <= DateOf(endDate))

\* the last n elements of xs, all of them when there are fewer
LastOf(xs, n) == SubSeq(xs, IF Len(xs) > n THEN Len(xs) - n + 1 ELSE 1, Len(xs))

C23_AtMostLimitMostRecent ==
  [][\A r \in 1..MaxScans, startDate \in DateParameters,
        endDate \in DateParameters, limit \in LimitParameters :
       (GetPriceHistory(ObjectId(r), startDate, endDate, limit)
          /\ (limit = Null \/ IsNumber(limit)))
       => /\ Len(ret'.data) <= AtMost(limit)
          /\ ret'.data =
               ChartData(LastOf(Passing(products[1].priceHistory,
                                        startDate, endDate),
                                AtMost(limit)))]_vars

\* what the code returns for limit = 0 (slice(-0) is slice(0)): every point
\* of a history of three
C23_Witness ==
  /\ Returned("getPriceHistory")
  /\ ret.status = 200
  /\ Len(ret.data) = 3

(* C29: in the response of GET /api/products/{id}/price-history the stats  *)
(* (min, max, avg, count) are those of the product's entire priceHistory   *)
(* whatever startDate, endDate and limit are; so every point of data has   *)
(* stats.min <= price <= stats.max and data is no longer than stats.count, *)
(* while the stats need not be those of the points returned.               *)

\* the stored product a response is about
ProductOf(response) ==
  products[CHOOSE i \in 1..Len(products) : products[i]._id = response.productId]

C29_StatsOfWholeHistory ==
  (Returned("getPriceHistory") /\ ret.status = 200)
  => /\ ret.stats.min = getMinPrice(ProductOf(ret))
     /\ ret.stats.max = getMaxPrice(ProductOf(ret))
     /\ ret.stats.avg = getAvgPrice(ProductOf(ret))
     /\ ret.stats.count = Len(ProductOf(ret).priceHistory)
     /\ Len(ret.data) <= ret.stats.count
     /\ \A k \in 1..Len(ret.data) :
          /\ DecLeq(ret.stats.min, ret.data[k].price)
          /\ DecLeq(ret.data[k].price, ret.stats.max)

\* a filtered answer: fewer points than the stats count, and none of them at
\* the minimum or at the maximum the stats report
C29_Witness ==
  /\ Returned("getPriceHistory")
  /\ ret.status = 200
  /\ Len(ret.data) = 1
  /\ ret.stats.count = 3
  /\ DecLess(ret.stats.min, ret.data[1].price)
  /\ DecLess(ret.data[1].price, ret.stats.max)

(* C24: a scan record that has an owner is returned by GET                 *)
(* /api/history/{id} only to a request authenticated as that owner (403    *)
(* otherwise, anonymous requests included), and DELETE /api/history/{id}   *)
(* removes a record only when the authenticated requester is its owner     *)
(* (404 and no deletion otherwise: records of other users and ownerless    *)
(* records are never deleted).                                             *)

\* the user a request is authenticated as: the stored user its header
\* carries a signed token of, null when there is none
AuthenticatedAs(req) ==
  IF \E u \in StoredUsers :
       req.header \in {<<"Bearer ", generateToken(u)>>, <<generateToken(u)>>}
  THEN UserId(CHOOSE u \in StoredUsers :
                req.header \in {<<"Bearer ", generateToken(u)>>,
                                <<generateToken(u)>>})
  ELSE Null

\* the statuses a request was answered with
Statuses(req) == [k \in 1..Len(req.sent) |-> req.sent[k].status]

\* of the GET requests answered: an owned record is in the answer only of
\* its owner, and a request of anyone else that read it is answered 403
OwnedReadByOwnerOnly ==
  \A r \in 1..MaxRequests :
    (requests[r].method = "GET" /\ requests[r].pc = "done")
    => \A scan \in requests[r].scan :
         scan.userId # Null
         => IF AuthenticatedAs(requests[r]) = scan.userId
            THEN Statuses(requests[r]) \in {<<200>>, <<403>>}
            ELSE Statuses(requests[r]) = <<403>>
                   /\ requests[r].sent[1].body = Null

\* a step of the handler of DELETE for request r
DeleteHandled(r) ==
  /\ requests[r].method = "DELETE"
  /\ requests[r].pc = "handler"
  /\ requests'[r].pc = "done"

C24_ScanOwnershipIsolation ==
  [][/\ OwnedReadByOwnerOnly'
     /\ \A scan \in scanHistory \ scanHistory' :
          \E r \in 1..MaxRequests :
            /\ DeleteHandled(r)
            /\ scan._id = requests[r].id
            /\ scan.userId # Null
            /\ scan.userId = AuthenticatedAs(requests[r])
            /\ Statuses(requests'[r]) = <<200>>
     /\ \A r \in 1..MaxRequests :
          (DeleteHandled(r)
             /\ ~\E scan \in scanHistory :
                   /\ scan._id = requests[r].id
                   /\ scan.userId = AuthenticatedAs(requests[r]))
          => /\ scanHistory' = scanHistory
             /\ Statuses(requests'[r]) \in {<<404>>, <<500>>}]_vars

\* user 2 asked for the record of user 1 and was answered 403, then asked
\* to delete it and was answered 404, and the record is still stored
C24_Witness ==
  /\ requests[1].method = "GET"
  /\ requests[1].id = ObjectId(1)
  /\ AuthenticatedAs(requests[1]) = UserId(2)
  /\ Statuses(requests[1]) = <<403>>
  /\ requests[2].method = "DELETE"
  /\ requests[2].id = ObjectId(1)
  /\ AuthenticatedAs(requests[2]) = UserId(2)
  /\ Statuses(requests[2]) = <<404>>
  /\ \E scan \in scanHistory : scan._id = ObjectId(1)

\* an anonymous request for an owned record was answered 403, and the owner
\* of a record deleted it
C24_WitnessAnonymousAndOwner ==
  /\ requests[1].method = "GET"
  /\ requests[1].header = Null
  /\ requests[1].id = ObjectId(2)
  /\ Statuses(requests[1]) = <<403>>
  /\ requests[2].method = "DELETE"
  /\ AuthenticatedAs(requests[2]) = UserId(1)
  /\ Statuses(requests[2]) = <<200>>
  /\ ~\E scan \in scanHistory : scan._id = ObjectId(1)

(* C25: the middleware auth calls next() at most once and only after the   *)
(* bearer token verified and the user it names was found, having set       *)
(* req.user and req.token; on a missing token, an invalid token or an      *)
(* unknown user it sends exactly one 401 response and never calls next().  *)
(* The middleware optionalAuth calls next() exactly once on every path and *)
(* never sends a response, and sets req.user only when the token verified  *)
(* and the user exists.                                                    *)

\* the responses a request was sent by its middleware
SentBy(req, by) == SelectSeq(req.sent, LAMBDA response : response.by = by)

\* the middleware of the request has run to its end
MiddlewareOver(req) == req.pc \in {"handler", "done"}

\* the token of the request verifies and names a stored user
TokenOfStoredUser(req) ==
  /\ ~Falsy(HeaderToken(req.header))
  /\ \E u \in StoredUsers : HeaderToken(req.header) = <<generateToken(u)>>

C25_NextAndResponses ==
  \A r \in 1..MaxRequests :
    IF requests[r].method = "DELETE" /\ requests[r].pc # "start"
    THEN /\ requests[r].nexts <= 1
         /\ requests[r].nexts = 1
            => /\ TokenOfStoredUser(requests[r])
               /\ requests[r].user = AuthenticatedAs(requests[r])
               /\ requests[r].token = HeaderToken(requests[r].header)
               /\ SentBy(requests[r], "auth") = <<>>
         /\ (MiddlewareOver(requests[r]) /\ ~TokenOfStoredUser(requests[r]))
            => requests[r].nexts = 0
         /\ (MiddlewareOver(requests[r]) /\ requests[r].nexts = 0)
            => /\ Statuses(requests[r]) = <<401>>
               /\ requests[r].user = Null
         /\ ~MiddlewareOver(requests[r])
            => requests[r].nexts = 0 /\ requests[r].sent = <<>>
    ELSE /\ requests[r].nexts = IF MiddlewareOver(requests[r]) THEN 1 ELSE 0
         /\ SentBy(requests[r], "route") = requests[r].sent
         /\ requests[r].user # Null
            => /\ TokenOfStoredUser(requests[r])
               /\ requests[r].user = AuthenticatedAs(requests[r])

\* auth refused a token of a user no longer stored, and optionalAuth let a
\* request with a garbage token through without a user
C25_Witness ==
  /\ requests[1].method = "DELETE"
  /\ requests[1].header = <<"Bearer ", generateToken(3)>>
  /\ Statuses(requests[1]) = <<401>>
  /\ requests[1].nexts = 0
  /\ requests[2].method = "GET"
  /\ requests[2].header = <<"Bearer ", Garbage>>
  /\ requests[2].nexts = 1
  /\ requests[2].user = Null

(* C26: every value returned by extractPrice is the value of a complete    *)
(* number token of the text; no candidate is parsed from a proper fragment *)
(* of a longer numeric token: for "199.99 руб" the fraction digits are not *)
(* returned as a separate candidate 99, and a text with a single decimal   *)
(* price followed by a currency token yields exactly one candidate.        *)

\* the characters of a number token
NumberChars == Digit \cup {".", ","}

\* the number tokens of t: the maximal runs of number characters
NumberTokens(t) ==
  {SubSeq(t, i, j) : i \in 1..Len(t), j \in 1..Len(t)} \cap
  {SubSeq(t, ij[1], ij[2]) :
     ij \in {ij \in (1..Len(t)) \X (1..Len(t)) :
               /\ ij[1] <= ij[2]
               /\ \A k \in ij[1]..ij[2] : t[k] \in NumberChars
               /\ ij[1] > 1 => t[ij[1] - 1] \notin NumberChars
               /\ ij[2] < Len(t) => t[ij[2] + 1] \notin NumberChars}}

\* the values of the number tokens
TokenValues(t) == {parseFloat(ReplaceComma(token)) : token \in NumberTokens(t)}

\* "199.99 руб"
DecimalPriceInRoubles ==
  <<"1", "9", "9", ".", "9", "9", " ", "ru_r", "ru_u", "ru_b">>

\* a token that reads as one number: digits, or digits, one separator and
\* digits
IsNumeral(token) ==
  /\ Cardinality({k \in 1..Len(token) : token[k] \notin Digit}) <= 1
  /\ token[1] \in Digit
  /\ token[Len(token)] \in Digit

C27_DiscountOnlyOnPromo ==
  Returned("parseOcrResult") => (ret.discountPercent # Null => ret.isPromo)

\* what the code returns for the milk scenario: "5%", the end of "2.5%", is
\* read as a discount of 5, and no promo rule matches
C27_Witness ==
  /\ Returned("parseOcrResult")
  /\ text = MilkScenario
  /\ PromoRulesMatching(text) = {}
  /\ ~ret.isPromo
  /\ ret.discountPercent = Dec(<<5>>, <<>>)

(* C28: in every reachable state of the backend, the interleavings where   *)
(* two scan requests for the same barcode not seen before both run         *)
(* Product.findOne before either runs save included, there is at most one  *)
(* Product per barcode, and every scan request that completes with a       *)
(* success response and had a non-null barcode and price has its price     *)
(* point in the priceHistory of that product.                              *)
C28_OneProductPerBarcode ==
  /\ \A i, j \in 1..Len(products) :
       products[i].barcode = products[j].barcode => i = j
  /\ \A r \in 1..MaxScans :
       (scans[r].pc = "done" /\ scans[r].barcode # Null /\ scans[r].price # Null)
       => /\ scans[r].barcode \in Barcodes(products)
          /\ \E k \in 1..Len(StoredHistory(scans[r].barcode)) :
               /\ StoredHistory(scans[r].barcode)[k] = scans[r].pushed[1]
               /\ StoredHistory(scans[r].barcode)[k].scannedAt = r

\* two requests built a new product for the same barcode; one has inserted
\* it with its point and answered, the insert of the other was refused, and
\* one product is stored
C28_Witness ==
  \E q, r \in 1..MaxScans :
    /\ q # r
    /\ scans[q].isNew /\ scans[r].isNew
    /\ scans[q].barcode = scans[r].barcode
    /\ scans[q].pc = "done"
    /\ scans[q].price # Null
    /\ scans[r].pc = "duplicate"
    /\ Len(products) = 1
    /\ Len(products[1].priceHistory) = 1
    /\ products[1].priceHistory[1].scannedAt = q

(* C30: in the frontend AuthProvider, whenever no auth request (login,     *)
(* register, or the token check authApi.me) is in flight, user is non-null *)
(* only if the token state is non-null and equals the token stored in      *)
(* localStorage, for every interleaving of login, register, logout and the *)
(* completion (success or failure) of the token check that each token      *)
(* change triggers.                                                        *)
C30_UserOnlyWithStoredToken ==
  pending = EmptyBag
  => (provider.user # Null
        => provider.token # Null /\ provider.token = localStorage)

\* what the code does when logout comes before the token check of the
\* mounted token is answered: the answer sets the user, with no token
C30_Witness ==
  /\ pending = EmptyBag
  /\ provider.user = UserId(1)
  /\ provider.token = Null
  /\ localStorage = Null
  /\ ~provider.isLoading

=========================================================================
